---- MODULE Spec2Model ----
(***************************************************************************)
(* A model of the clod Slack bot (github.com/calebcase/clod/bot): the      *)
(* event handlers, the per-task dispatcher loop, the task runner with its  *)
(* PTY reader worker, the permission FIFO, the saved permission rules and  *)
(* the session store.                                                      *)
(*                                                                         *)
(* Go strings whose inner structure the code inspects (message texts,      *)
(* commands, paths, permission rules, output items) are sequences of       *)
(* tokens: a word is one token, and each punctuation or blank character    *)
(* the code looks for is a token of its own.  Opaque strings (user ids,    *)
(* thread keys, session ids) are TLA+ strings.                             *)
(*                                                                         *)
(* Every goroutine of the program is a process with a program counter: an  *)
(* event handler (HandleAppMention, HandleMessage, HandleBlockAction, the  *)
(* first two continuing into runClod and its select loop), and per started *)
(* task the PTY reader worker of Runner.Start.  A step of a process is the *)
(* code between two accesses to state shared with other goroutines.        *)
(***************************************************************************)
EXTENDS Integers, Sequences, FiniteSets, TLC

(***************************************************************************)
(* Bounds of the model.                                                    *)
(***************************************************************************)
MaxHandlers == 3   \* event handler goroutines alive at once
MaxTasks == 2      \* subprocesses started in one run
MaxEvents == 2     \* Slack events delivered in one run
MaxLines == 2      \* lines the agents write in one run
MaxRequests == 2   \* permission requests the agents make in one run
MaxWrites == 2     \* writes made to the task directories in one run
MaxTime == 11      \* seconds the clock runs

(***************************************************************************)
(* Program constants.                                                      *)
(***************************************************************************)
OutputCap == 100
DoneCap == 1
PermissionCap == 10
maxBatchLen == 1500
maxInlineLen == 500

(***************************************************************************)
(* String helpers (package strings), on token sequences.                   *)
(***************************************************************************)
Blank == {" ", "\t", "\n"}

HasPrefix(s, p) == Len(s) >= Len(p) /\ SubSeq(s, 1, Len(p)) = p

HasSuffix(s, p) == Len(s) >= Len(p) /\ SubSeq(s, Len(s) - Len(p) + 1, Len(s)) = p

TrimSuffix(s, p) == IF HasSuffix(s, p) THEN SubSeq(s, 1, Len(s) - Len(p)) ELSE s

Contains(s, sub) ==
  \E i \in 1..(Len(s) - Len(sub) + 1) : SubSeq(s, i, i + Len(sub) - 1) = sub

RECURSIVE TrimLeft(_)
TrimLeft(s) == IF s # <<>> /\ Head(s) \in Blank THEN TrimLeft(Tail(s)) ELSE s

RECURSIVE TrimRight(_)
TrimRight(s) ==
  IF s # <<>> /\ s[Len(s)] \in Blank THEN TrimRight(SubSeq(s, 1, Len(s) - 1)) ELSE s

TrimSpace(s) == TrimRight(TrimLeft(s))

\* strings.Fields: the maximal runs of non-blank tokens; a run is itself a
\* token sequence.
RECURSIVE FieldsAcc(_, _, _)
FieldsAcc(s, cur, acc) ==
  IF s = <<>> THEN (IF cur = <<>> THEN acc ELSE Append(acc, cur))
  ELSE IF Head(s) \in Blank
       THEN FieldsAcc(Tail(s), <<>>, IF cur = <<>> THEN acc ELSE Append(acc, cur))
       ELSE FieldsAcc(Tail(s), Append(cur, Head(s)), acc)

Fields(s) == FieldsAcc(s, <<>>, <<>>)

\* strings.ToLower on the words the model uses.
LowerTok(t) ==
  CASE t = "YES" -> "yes"
    [] t = "Yes" -> "yes"
    [] t = "No" -> "no"
    [] t = "Demo" -> "demo"
    [] OTHER -> t

ToLower(s) == [i \in 1..Len(s) |-> LowerTok(s[i])]

\* len() of a Go string, in bytes: every token of the model stands for one
\* byte, except the tokens that stand for a long run of bytes.
TokLen(t) ==
  CASE t = "LONGTEXT" -> maxBatchLen
    [] t = "LONGOUT" -> maxInlineLen + 1
    [] OTHER -> 1

RECURSIVE StrLen(_)
StrLen(s) == IF s = <<>> THEN 0 ELSE TokLen(Head(s)) + StrLen(Tail(s))

(***************************************************************************)
(* Authorizer (allowlist gate).                                            *)
(***************************************************************************)
Users == {"U1", "U2"}

\* NewAuthorizer: the map made of the configured list of user ids.
NewAuthorizer(allowedUsers) == {allowedUsers[i] : i \in 1..Len(allowedUsers)}

\* The allowlist the bot runs with, where a specification draws no other.
allowed == NewAuthorizer(<<"U1">>)

(***************************************************************************)
(* Mention parsing (parser.go).                                            *)
(***************************************************************************)
MentionToks == {"<@BOT>", "<@U2>"}

\* mentionPattern  <@[A-Z0-9]+>\s+(\S+?):\s*(.+)  at position i of text:
\* a mention token, at least one blank, one word, a colon, optional blanks
\* and at least one more token.
MentionAt(text, i) ==
  /\ i + 4 <= Len(text)
  /\ text[i] \in MentionToks
  /\ text[i + 1] \in Blank
  /\ \E j \in (i + 2)..(Len(text) - 2) :
       /\ \A k \in (i + 1)..(j - 1) : text[k] \in Blank
       /\ text[j] \notin Blank /\ text[j] # ":"
       /\ text[j + 1] = ":"
       /\ TrimLeft(SubSeq(text, j + 2, Len(text))) # <<>>

NoMention == [ok |-> FALSE, TaskName |-> "", Instructions |-> <<>>]

ParseMention(text) ==
  IF \E i \in 1..Len(text) : MentionAt(text, i)
  THEN LET i == CHOOSE i \in 1..Len(text) :
                  MentionAt(text, i) /\ \A k \in 1..(i - 1) : ~MentionAt(text, k)
           j == CHOOSE j \in (i + 2)..Len(text) : text[j] \notin Blank
       IN [ok |-> TRUE,
           TaskName |-> LowerTok(text[j]),
           Instructions |-> TrimSpace(SubSeq(text, j + 2, Len(text)))]
  ELSE NoMention

\* What (.*) takes: in a Go regexp the dot does not match a newline.
RECURSIVE FirstLine(_)
FirstLine(s) == IF s = <<>> \/ Head(s) = "\n" THEN <<>> ELSE <<Head(s)>> \o FirstLine(Tail(s))

\* continuationPattern  <@[A-Z0-9]+>\s*(.*)  : behind the first mention
\* token the whitespace is skipped and the rest of that line is taken,
\* trimmed; the whole text trimmed when there is no mention token.
ParseContinuation(text) ==
  IF \E i \in 1..Len(text) : text[i] \in MentionToks
  THEN LET i == CHOOSE i \in 1..Len(text) :
                  text[i] \in MentionToks /\ \A k \in 1..(i - 1) : text[k] \notin MentionToks
       IN TrimSpace(FirstLine(TrimLeft(SubSeq(text, i + 1, Len(text)))))
  ELSE TrimSpace(text)

\* otherMentionPattern  ^<@([A-Z0-9]+)>
StartsWithMention(text) == text # <<>> /\ text[1] \in MentionToks

(***************************************************************************)
(* Permission responses and rules (handler.go).                            *)
(***************************************************************************)
NoResp == [Behavior |-> "", Message |-> ""]

AllowWords == {"yes", "y", "allow", "ok", "approve", "approved", "accept", "yep", "yeah", "sure"}
DenyWords == {"no", "n", "deny", "denied", "reject", "rejected", "nope", "nah"}

\* The text is compared as it came, neither trimmed nor lowercased.
parsePermissionResponse_Verbatim(text) ==
  IF Len(text) = 1 /\ text[1] \in AllowWords
  THEN [Behavior |-> "allow", Message |-> ""]
  ELSE IF Len(text) = 1 /\ text[1] \in DenyWords
       THEN [Behavior |-> "deny", Message |-> "User denied permission"]
       ELSE NoResp

parsePermissionResponse(text) ==
  LET lower == ToLower(TrimSpace(text))
  IN IF Len(lower) = 1 /\ lower[1] \in AllowWords
     THEN [Behavior |-> "allow", Message |-> ""]
     ELSE IF Len(lower) = 1 /\ lower[1] \in DenyWords
          THEN [Behavior |-> "deny", Message |-> "User denied permission"]
          ELSE NoResp

FileTools == {"Write", "Edit", "Read"}

HasKey(toolInput, k) == k \in DOMAIN toolInput

\* Only the bare tool name is a rule.
matchesPermissionRule_ExactOnly(rule, toolName, toolInput) == rule = <<toolName>>

matchesPermissionRule(rule, toolName, toolInput) ==
  IF rule = <<toolName>> THEN TRUE
  ELSE IF HasPrefix(rule, <<toolName, "(">>) /\ HasSuffix(rule, <<")">>)
  THEN LET pattern == SubSeq(rule, 3, Len(rule) - 1)
           prefix == TrimSuffix(pattern, <<":", "*">>)
           dirPrefix == TrimSuffix(pattern, <<"*", "*">>)
           colonStar ==
             /\ HasSuffix(pattern, <<":", "*">>)
             /\ IF toolName = "Bash"
                THEN /\ HasKey(toolInput, "command")
                     /\ LET parts == Fields(toolInput["command"])
                        IN Len(parts) > 0 /\ parts[1] = prefix
                ELSE /\ toolName \in FileTools
                     /\ HasKey(toolInput, "file_path")
                     /\ LET path == toolInput["file_path"]
                        IN Contains(path, <<"/">> \o prefix \o <<"/">>)
                             \/ HasPrefix(path, prefix \o <<"/">>)
           glob ==
             /\ HasSuffix(pattern, <<"*", "*">>)
             /\ toolName \in FileTools
             /\ HasKey(toolInput, "file_path")
             /\ LET path == toolInput["file_path"]
                IN Contains(path, <<"/">> \o dirPrefix) \/ HasPrefix(path, dirPrefix)
       IN colonStar \/ glob
  ELSE FALSE

\* filepath.Dir and filepath.Base on clean slash-separated paths.
LastSlash(path) ==
  IF \E i \in 1..Len(path) : path[i] = "/"
  THEN CHOOSE i \in 1..Len(path) :
         path[i] = "/" /\ \A k \in (i + 1)..Len(path) : path[k] # "/"
  ELSE 0

Dir(path) ==
  LET i == LastSlash(path)
  IN IF i = 0 THEN <<".">> ELSE IF i = 1 THEN <<"/">> ELSE SubSeq(path, 1, i - 1)

Base(path) ==
  IF path = <<>> THEN <<".">>
  ELSE IF path = <<"/">> THEN <<"/">>
  ELSE SubSeq(path, LastSlash(path) + 1, Len(path))

generateSimilarPattern(toolName, toolInput) ==
  IF toolName = "Bash"
  THEN IF HasKey(toolInput, "command") /\ Len(Fields(toolInput["command"])) > 0
       THEN <<"Bash", "(">> \o Fields(toolInput["command"])[1] \o <<":", "*", ")">>
       ELSE <<>>
  ELSE IF toolName \in FileTools
  THEN IF HasKey(toolInput, "file_path")
       THEN LET base == Base(Dir(toolInput["file_path"]))
            IN IF base # <<>> /\ base # <<".">> /\ base # <<"/">>
               THEN <<toolName, "(">> \o base \o <<"/", "*", "*", ")">>
               ELSE <<>>
       ELSE <<>>
  ELSE IF toolName = "WebFetch"
  THEN IF HasKey(toolInput, "url")
       THEN LET u == toolInput["url"]
                hasScheme == \E i \in 1..Len(u) : u[i] = "://"
                idx == CHOOSE i \in 1..Len(u) :
                         u[i] = "://" /\ \A k \in 1..(i - 1) : u[k] # "://"
                hasSlash == hasScheme /\ \E j \in (idx + 1)..Len(u) : u[j] = "/"
                sl == CHOOSE j \in (idx + 1)..Len(u) :
                        u[j] = "/" /\ \A k \in (idx + 1)..(j - 1) : u[k] # "/"
            IN IF hasSlash
               THEN <<"WebFetch", "(">> \o SubSeq(u, 1, sl - 1) \o <<":", "*", ")">>
               ELSE <<>>
       ELSE <<>>
  ELSE <<>>

(***************************************************************************)
(* Markdown conversion (mrkdwn.go): the text is parsed into blocks         *)
(* (headings, paragraphs) and inline nodes (Strong, Emph, Del), and the    *)
(* renderer writes Slack's marker for each node.  Texts are those whose    *)
(* emphasis spans lie within one line.                                     *)
(***************************************************************************)
\* The delimiters the parser pairs into Strong, Emph, Emph and Del.
Markers == {"**", "*", "_", "~~"}

\* What RenderNode writes on entering and on leaving the node of a marker:
\* "*" for Strong, "_" for Emph, "~" for Del.
ConvertTok(t) ==
  CASE t = "**" -> "*"
    [] t = "*" -> "_"
    [] t = "~~" -> "~"
    [] OTHER -> t

\* Where the span that opens at the head of s closes, 0 when the head opens
\* none: the opening marker is not followed by a blank, the same marker
\* follows later on the line, not preceded by a blank.
Closing(s) ==
  LET js == {j \in 3..Len(s) : /\ s[j] = s[1]
                               /\ s[j - 1] \notin Blank
                               /\ \A k \in 2..(j - 1) : s[k] # "\n"}
  IN IF Len(s) >= 3 /\ s[1] \in Markers /\ s[2] \notin Blank /\ js # {}
     THEN CHOOSE j \in js : \A k \in js : j <= k
     ELSE 0

\* The inline nodes of a line, rendered: a span as its marker, its content
\* and its marker, everything else as it is (ast.Text).
RECURSIVE Inline(_)
Inline(s) ==
  IF s = <<>> THEN <<>>
  ELSE LET j == Closing(s)
       IN IF j = 0
          THEN <<s[1]>> \o Inline(Tail(s))
          ELSE <<ConvertTok(s[1])>> \o Inline(SubSeq(s, 2, j - 1)) \o <<ConvertTok(s[1])>>
                 \o Inline(SubSeq(s, j + 1, Len(s)))

\* One line as a block: an ATX heading is written as a bold line of its
\* own, a line of a paragraph as its inline nodes and a newline, a blank
\* line as nothing.
RenderLine(line) ==
  IF TrimSpace(line) = <<>> THEN <<>>
  ELSE IF Len(line) >= 2 /\ line[1] \in {"#", "##"} /\ line[2] = " "
  THEN <<"\n", "*">> \o Inline(TrimSpace(SubSeq(line, 3, Len(line)))) \o <<"*", "\n">>
  ELSE Inline(line) \o <<"\n">>

RECURSIVE RenderBlocks(_)
RenderBlocks(s) ==
  IF s = <<>> THEN <<>>
  ELSE LET line == FirstLine(s)
       IN RenderLine(line) \o RenderBlocks(SubSeq(s, Len(line) + 2, Len(s)))

ConvertMarkdownToMrkdwn(md) == TrimSpace(RenderBlocks(md))

(***************************************************************************)
(* The configuration document <taskPath>/.clod/claude/claude.json.  Of the *)
(* document the model keeps: one top-level key beside "projects" (extra),  *)
(* whether "projects" is an object (projectsOk), one key of projects       *)
(* beside the task directory's (sibling), and projects[taskPath]: whether  *)
(* it is an object (ok), one key of it beside "allowedTools" (extra),      *)
(* whether allowedTools is an array (toolsOk) and its elements.  The       *)
(* values of the other keys are JSON numbers, written as in the file; ""   *)
(* stands for a key that is not there.                                     *)
(***************************************************************************)
JSONNumbers == {"5", "1.0", "9007199254740993"}

\* json.Unmarshal into map[string]any makes a float64 of every JSON number,
\* and json.MarshalIndent writes the float64 back in its shortest form: a
\* number float64 does not hold exactly comes back as its nearest float64.
Float64(n) ==
  CASE n = "9007199254740993" -> "9007199254740992"
    [] n = "1.0" -> "1"
    [] OTHER -> n

NoProject == [ok |-> FALSE, extra |-> "", toolsOk |-> FALSE, allowedTools |-> <<>>]

\* A document whose projects[taskPath].allowedTools holds the given rules.
ConfigWith(rules) ==
  [extra |-> "5", projectsOk |-> TRUE, sibling |-> "5",
   project |-> [ok |-> TRUE, extra |-> "5", toolsOk |-> TRUE, allowedTools |-> rules]]

\* The documents the bot may find in a task directory.
Configs(ruleSets) ==
  { ConfigWith(r) : r \in ruleSets }
  \cup { [ConfigWith(r) EXCEPT !.extra = n] : r \in ruleSets, n \in JSONNumbers }
  \cup { [ConfigWith(r) EXCEPT !.project.toolsOk = FALSE, !.project.allowedTools = <<>>] :
           r \in ruleSets }
  \cup { [ConfigWith(r) EXCEPT !.project = NoProject] : r \in ruleSets }
  \cup { [ConfigWith(r) EXCEPT !.projectsOk = FALSE, !.sibling = "", !.project = NoProject] :
           r \in ruleSets }

\* json.Unmarshal of the file into config, and json.MarshalIndent of it.
RoundTrip(config) ==
  [config EXCEPT !.extra = Float64(@), !.sibling = Float64(@), !.project.extra = Float64(@)]

\* config["projects"][taskPath]["allowedTools"] as isPermissionAllowed reads
\* it: no rules when a level is missing or of another type.
AllowedTools(config) ==
  IF config.projectsOk /\ config.project.ok /\ config.project.toolsOk
  THEN config.project.allowedTools
  ELSE <<>>

(***************************************************************************)
(* The state.                                                              *)
(***************************************************************************)
VARIABLES
  runningTasks,        \* Handler.runningTasks: thread key -> task id, 0 = no entry
  pendingPermissions,  \* Handler.pendingPermissions: thread key -> PendingPermission
  sessions,            \* SessionStore.sessions: thread key -> SessionMapping
  file,                \* the session store file at SessionStore.path
  claude,              \* the document <taskPath>/.clod/claude/claude.json of each task directory
  tasks,               \* the RunningTasks started so far, with their subprocess and reader worker
  hs,                  \* the handler goroutines
  chat,                \* the messages posted to Slack: thread key -> messages in order
  env,                 \* what the environment may still do (events, lines, requests left),
                       \* the signals it has sent, and the allowlist the bot was started with
  crashed,             \* "" while the bot runs; "kill" or "panic" once its process has died
  runtime              \* the runtime workspaces <taskPath>/.clod/runtime-<suffix> on disk:
                       \* task directory -> suffix -> file -> the task that made it, 0 = absent

vars ==
  <<runningTasks, pendingPermissions, sessions, file, claude, tasks, hs, chat, env, crashed,
    runtime>>

Threads == {"C1:T1", "C1:T2"}
HandlerIds == 1..MaxHandlers

\* TaskRegistry: the task names discovered at startup and their directories.
registry == [demo |-> "/agents/demo"]

NoPending == [MessageTS |-> 0, ThreadTS |-> "", ToolName |-> "", ToolInput |-> <<>>]
NoSession == [TaskName |-> "", TaskPath |-> "", SessionID |-> "", UserID |-> "", CreatedAt |-> 0]
NoResult == [SessionID |-> "", Error |-> "", nil |-> TRUE]
NoArgs == [taskPath |-> "", taskName |-> "", prompt |-> <<>>, sessionID |-> ""]
NoClick == [msg |-> 0, actionID |-> "", k |-> "", b |-> "", r |-> <<>>, name |-> ""]

Idle ==
  [kind |-> "idle", pc |-> "idle", user |-> "", thread |-> "", text |-> <<>>,
   click |-> NoClick, task |-> 0, perm |-> NoPending, resp |-> NoResp,
   buf |-> <<>>, result |-> NoResult, args |-> NoArgs,
   data |-> <<>>, tmp |-> "none", saveErr |-> FALSE, exit |-> "", files |-> "none"]

\* The serialization json.MarshalIndent gives a snapshot of the store: the
\* array of the non-nil mappings (a JSON array, named here by its elements).
Marshal(snap) == [kind |-> "array", elems |-> {<<th, snap[th]>> : th \in {t \in Threads : snap[t] # NoSession}}]

PartialFile == [kind |-> "partial", elems |-> {}]

EmptyStore == [th \in Threads |-> NoSession]

\* A mapping an earlier run saved; CreatedAt is 0 for that run, 1 for this one.
OldSession ==
  [TaskName |-> "demo", TaskPath |-> "/agents/demo", SessionID |-> "s0", UserID |-> "U1",
   CreatedAt |-> 0]

TaskPaths == {"/agents/demo"}

(***************************************************************************)
(* The top-level files of a task directory, as FileHandler.WatchOutputs    *)
(* sees them (files.go).  modTime counts the writes made anywhere so far:  *)
(* a later write has a later modification time.  The clock env.now is in   *)
(* seconds.                                                                *)
(***************************************************************************)
OutputNames == {"notes.txt", "out.txt"}

NoFile == [there |-> FALSE, modTime |-> 0, size |-> 0]

\* cooldownPeriod := 10 * time.Second
cooldownPeriod == 10

NoUpload == [tracked |-> FALSE, modTime |-> 0, lastUploadTime |-> 0]

\* The watcher of a task before its goroutine has run.  pc is where it is:
\* "off", "idle" (at its select), "scan" (in the loop of uploadNewFiles over
\* the entries left), "settle" (in time.Sleep), "upload" (after the size
\* check), "end".  uploaded is its map; initial is the copy of it made at
\* the start; log lists its uploads: the name, the modification time of
\* the content sent, the time of the upload.
NoWatch ==
  [pc |-> "off", uploaded |-> [n \in OutputNames |-> NoUpload],
   initial |-> [n \in OutputNames |-> NoUpload],
   left |-> {}, final |-> FALSE, name |-> "", size |-> 0, modTime |-> 0, log |-> <<>>]

(***************************************************************************)
(* The runtime workspace of a permission channel (permission.go).          *)
(***************************************************************************)
FIFORequestName == "permission_request.fifo"
FIFOResponseName == "permission_response.fifo"
MCPScriptName == "permission_mcp.py"
MCPConfigName == "mcp_config.json"
AgentMD == "AGENT.md"
RuntimeDir == "."

RuntimeFiles ==
  {RuntimeDir, FIFORequestName, FIFOResponseName, MCPScriptName, MCPConfigName, AgentMD}

\* fmt.Sprintf("%x", randomBytes) of three bytes from crypto/rand: two of
\* the 2^24 values.
Suffixes == {"a1b2c3", "d4e5f6"}

NoRuntime == [f \in RuntimeFiles |-> 0]

\* NewPermissionFIFO on the directory runtime-<suffix> as instance t finds
\* it: MkdirAll keeps a directory that exists, the agent prompt is copied
\* when one is configured, pipes found at the two paths are removed, the
\* script is written over what is there, and the two pipes are made anew.
NewPermissionFIFO(dir, t, prompt) ==
  [dir EXCEPT ![RuntimeDir] = IF @ = 0 THEN t ELSE @,
              ![AgentMD] = IF prompt THEN t ELSE @,
              ![MCPScriptName] = t,
              ![FIFORequestName] = t,
              ![FIFOResponseName] = t]

\* PermissionFIFO.CreateMCPConfig: os.WriteFile of the configuration document.
CreateMCPConfig(dir, t) == [dir EXCEPT ![MCPConfigName] = t]

\* A Close that removes nothing.
Close_KeepPipes(dir) == dir

\* What PermissionFIFO.Close does on disk: os.Remove of whatever is at
\* p.requestPath and p.responsePath.
Close(dir) == [dir EXCEPT ![FIFORequestName] = 0, ![FIFOResponseName] = 0]

\* Authorizer.IsAuthorized
IsAuthorized_OpenWhenEmpty(userID) ==
  IF Cardinality(env.allowed) = 0 THEN TRUE ELSE userID \in env.allowed

IsAuthorized(userID) == IF Cardinality(env.allowed) = 0 THEN FALSE ELSE userID \in env.allowed

\* The bot after NewAuthorizer, SessionStore.Load and NewBot, with the
\* allowlist it was given, the store and the documents it found and what
\* the environment is going to do.
StartedAll(allowedUsers, stores, configs, events, lines, requests, writes) ==
  /\ runningTasks = [th \in Threads |-> 0]
  /\ pendingPermissions = [th \in Threads |-> NoPending]
  /\ sessions \in stores
  /\ file = Marshal(sessions)
  /\ claude \in [TaskPaths -> configs]
  /\ tasks = <<>>
  /\ hs = [h \in HandlerIds |-> Idle]
  /\ chat = [th \in Threads |-> <<>>]
  /\ \E list \in allowedUsers :
       env = [events |-> events, lines |-> lines, requests |-> requests, signals |-> 0,
              allowed |-> NewAuthorizer(list),
              writes |-> writes, now |-> 0, dir |-> [n \in OutputNames |-> NoFile]]
  /\ crashed = ""
  /\ runtime = [d \in TaskPaths |-> [s \in Suffixes |-> NoRuntime]]

StartedFor(allowedUsers, stores, configs, events, lines, requests) ==
  StartedAll(allowedUsers, stores, configs, events, lines, requests, 0)

StartedWith(stores, configs, events, lines, requests) ==
  StartedFor({<<"U1">>}, stores, configs, events, lines, requests)

Started(stores, rules, events, lines, requests) ==
  StartedWith(stores, {ConfigWith(r) : r \in rules}, events, lines, requests)

(***************************************************************************)
(* Chat (Bot.PostMessage, PostMessageBlocks, UpdateMessage...).  A message *)
(* timestamp is the message's position in its thread.                     *)
(***************************************************************************)
Msg(thread, kind, body, task) ==
  [thread |-> thread, kind |-> kind, body |-> body, task |-> task,
   tool |-> "", input |-> <<>>, similar |-> <<>>, by |-> ""]

Post(c, m) == [c EXCEPT ![m.thread] = Append(@, m)]

PostAll(c, thread, ms) == [c EXCEPT ![thread] = @ \o ms]

\* The free slot an arriving event's goroutine takes.
FreeSlot(h) == hs[h].kind = "idle" /\ \A g \in 1..(h - 1) : hs[g].kind # "idle"

(***************************************************************************)
(* RunningTask and Runner.Start (runner.go).                               *)
(***************************************************************************)
\* What Start returns when pty.Start succeeded.  leader is the state of the
\* subprocess exec.CommandContext started; group says whether other members
\* of its process group (Setsid) still hold the PTY open; ctx is runCtx.
NewTask(thread, args, grp) ==
  [thread |-> thread, taskPath |-> args.taskPath, prompt |-> args.prompt,
   resume |-> args.sessionID, sessionID |-> args.sessionID,
   leader |-> "running", group |-> grp, ctx |-> "live",
   output |-> <<>>, outputClosed |-> FALSE,
   done |-> <<>>, doneClosed |-> FALSE,
   requests |-> <<>>, responses |-> <<>>, fifoClosed |-> FALSE, held |-> <<>>,
   suffix |-> "", readRequests |-> "open", writeResponses |-> "select", watch |-> NoWatch,
   ptyClosed |-> FALSE, rpc |-> "scan", toolInfos |-> {},
   written |-> <<>>, sent |-> <<>>, results |-> 0]

TaskIds == 1..Len(tasks)

\* select { case ch <- v: default: drop }
TrySend(ch, v, cap) == IF Len(ch) < cap THEN Append(ch, v) ELSE ch

\* RunningTask.SendInput: one JSON line written to the PTY.
SendInput(t, text, user) ==
  IF t.ptyClosed THEN t ELSE [t EXCEPT !.written = Append(@, [text |-> text, by |-> user])]

\* RunningTask.SendPermissionResponse -> PermissionFIFO.SendResponse, on an
\* open channel; tag is the model's record of what the sender answered: the
\* prompt message (0 for none), the user, the tool asked for.
SendPermissionResponse(t, resp, tag) ==
  [t EXCEPT !.responses = TrySend(@, resp, PermissionCap),
            !.sent = IF Len(t.responses) < PermissionCap
                     THEN Append(@, [Behavior |-> resp.Behavior, Message |-> resp.Message,
                                     prompt |-> tag.prompt, by |-> tag.by, tool |-> tag.tool])
                     ELSE @]

(***************************************************************************)
(* The stream-json messages the agent writes to the PTY.                   *)
(***************************************************************************)
StreamMsg(type, subtype, sid, blocks, delta, result) ==
  [Type |-> type, Subtype |-> subtype, SessionID |-> sid, Content |-> blocks,
   Delta |-> delta, Result |-> result]

TextBlock(text) == [Type |-> "text", Text |-> text, ID |-> "", Name |-> ""]
ToolUse(id, name) == [Type |-> "tool_use", Text |-> <<>>, ID |-> id, Name |-> name]
ToolResult(id, content) == [Type |-> "tool_result", Text |-> content, ID |-> id, Name |-> ""]

\* toolInfos[block.ToolUseID].Name, "" when the id was never recorded.
ToolName(infos, id) ==
  IF \E i \in infos : i[1] = id THEN (CHOOSE i \in infos : i[1] = id)[2] ELSE ""

\* The output item the reader makes of one tool_result block.
ToolResultItem(name, contentText) ==
  LET trimmedContent == TrimRight(contentText)
  IN IF name = "Bash" /\ StrLen(contentText) <= maxInlineLen
     THEN <<"\n", "FENCE", "\n">> \o trimmedContent \o <<"\n", "FENCE">>
     ELSE <<"__SNIPPET__", name, "NUL", "{}", "NUL">> \o trimmedContent

StatsItem(msg) == <<"__STATS__", "{stats}">>

\* The output items one content block of an assistant or user message gives.
BlockItems(type, infos, block) ==
  IF type = "assistant" /\ block.Type = "text" /\ block.Text # <<>> THEN << block.Text >>
  ELSE IF type = "user" /\ block.Type = "tool_result" /\ block.Text # <<>>
       THEN << ToolResultItem(ToolName(infos, block.ID), block.Text) >>
       ELSE <<>>

RECURSIVE MsgItems(_, _, _)
MsgItems(type, infos, blocks) ==
  IF blocks = <<>> THEN <<>>
  ELSE BlockItems(type, infos, Head(blocks))
         \o MsgItems(type,
                     IF type = "assistant" /\ Head(blocks).Type = "tool_use"
                     THEN {i \in infos : i[1] # Head(blocks).ID}
                            \cup {<<Head(blocks).ID, Head(blocks).Name>>}
                     ELSE infos,
                     Tail(blocks))

\* The output items the reader sends for one parsed line, in order.
LineItems(t, msg) ==
  CASE msg.Type \in {"assistant", "user"} -> MsgItems(msg.Type, t.toolInfos, msg.Content)
    [] msg.Type = "content_block_delta" -> IF msg.Delta # <<>> THEN << msg.Delta >> ELSE <<>>
    [] msg.Type = "result" -> << StatsItem(msg) >>
    [] OTHER -> <<>>

RECURSIVE SendAll(_, _)
SendAll(ch, items) ==
  IF items = <<>> THEN ch ELSE SendAll(TrySend(ch, Head(items), OutputCap), Tail(items))

\* The session id the task holds after the reader has seen msg.
CaptureSessionID(sessionID, msg) ==
  LET first == IF msg.SessionID # "" /\ sessionID = "" THEN msg.SessionID ELSE sessionID
  IN IF msg.Type = "system" /\ msg.Subtype = "init" /\ msg.SessionID # ""
     THEN msg.SessionID
     ELSE first

\* One iteration of the scanner loop of the reader worker.
ScanLine(t, msg) ==
  [t EXCEPT !.sessionID = CaptureSessionID(@, msg),
            !.toolInfos =
               IF msg.Type = "assistant"
               THEN LET uses == {i \in 1..Len(msg.Content) : msg.Content[i].Type = "tool_use"}
                    IN {x \in @ : \A i \in uses : msg.Content[i].ID # x[1]}
                         \cup {<<msg.Content[i].ID, msg.Content[i].Name>> : i \in uses}
               ELSE @,
            !.output = SendAll(@, LineItems(t, msg))]

\* Result.Error, from the error of cmd.Wait and runCtx.Err().
ResultError(waitErr, ctx) ==
  IF waitErr
  THEN IF ctx = "deadline" THEN "timeout"
       ELSE IF ctx = "canceled" THEN "cancelled"
       ELSE "exit"
  ELSE ""

(***************************************************************************)
(* Event handlers (handler.go).  The action named after a handler is the   *)
(* arrival of the event and the handler's code up to and including its     *)
(* lookup in runningTasks; the handler's later steps follow.               *)
(***************************************************************************)
Finish(h) == [hs EXCEPT ![h] = Idle]

Arrive(h) ==
  /\ crashed = ""
  /\ env.events > 0
  /\ FreeSlot(h)
  /\ env' = [env EXCEPT !.events = @ - 1]

At(h, pc) == crashed = "" /\ hs[h].pc = pc

MentionTexts ==
  { <<"<@BOT>", " ", "Demo", ":", " ", "hello">>,
    <<"<@BOT>", " ", "nosuch", ":", " ", "hello">>,
    <<"<@BOT>", " ", "more">>,
    <<"<@BOT>">> }

MessageTexts ==
  { <<"Yes">>, <<"no", " ">>, <<"add", " ", "tests">>, <<"<@U2>", " ", "hi">> }

HandleAppMention(h, user, thread, text) ==
  /\ Arrive(h)
  /\ IF ~IsAuthorized(user)
     THEN /\ chat' = Post(chat, Msg(thread, "reject", <<>>, 0))
          /\ UNCHANGED <<hs, tasks>>
     ELSE IF runningTasks[thread] # 0
     THEN LET input == ParseContinuation(text)
          IN /\ tasks' = IF input # <<>>
                         THEN [tasks EXCEPT ![runningTasks[thread]] = SendInput(@, input, user)]
                         ELSE tasks
             /\ UNCHANGED <<hs, chat>>
     ELSE /\ hs' = [hs EXCEPT ![h] = [Idle EXCEPT !.kind = "mention", !.pc = "route",
                                                  !.user = user, !.thread = thread,
                                                  !.text = text]]
          /\ UNCHANGED <<chat, tasks>>
  /\ UNCHANGED <<runtime, runningTasks, pendingPermissions, sessions, file, claude, crashed>>

\* The decision of HandleAppMention after its lookups, through
\* handleContinuation or handleNewTask: the message it posts and, when it
\* goes on to runClod, the arguments.
RouteMention(session, text) ==
  IF session # NoSession
  THEN LET instructions == ParseContinuation(text)
       IN IF instructions = <<>>
          THEN [run |-> FALSE, post |-> "need-instructions", args |-> NoArgs]
          ELSE [run |-> TRUE, post |-> "continuing",
                args |-> [taskPath |-> session.TaskPath, taskName |-> session.TaskName,
                          prompt |-> instructions, sessionID |-> session.SessionID]]
  ELSE LET parsed == ParseMention(text)
       IN IF ~parsed.ok
          THEN [run |-> FALSE, post |-> "not-understood", args |-> NoArgs]
          ELSE IF parsed.TaskName \notin DOMAIN registry
          THEN [run |-> FALSE, post |-> "unknown-task", args |-> NoArgs]
          ELSE [run |-> TRUE, post |-> "starting",
                args |-> [taskPath |-> registry[parsed.TaskName], taskName |-> parsed.TaskName,
                          prompt |-> parsed.Instructions, sessionID |-> ""]]

\* The decision of HandleMessage when no task runs in the thread.
\* The session is found but its id is not handed on.
RouteMessage_Fresh(session, user, text) ==
  IF session = NoSession
  THEN [run |-> FALSE, post |-> "help", args |-> NoArgs]
  ELSE IF ~IsAuthorized(user)
  THEN [run |-> FALSE, post |-> "", args |-> NoArgs]
  ELSE [run |-> TRUE, post |-> "resuming",
        args |-> [taskPath |-> session.TaskPath, taskName |-> session.TaskName,
                  prompt |-> text, sessionID |-> ""]]

RouteMessage(session, user, text) ==
  IF session = NoSession
  THEN [run |-> FALSE, post |-> "help", args |-> NoArgs]
  ELSE IF ~IsAuthorized(user)
  THEN [run |-> FALSE, post |-> "", args |-> NoArgs]
  ELSE [run |-> TRUE, post |-> "resuming",
        args |-> [taskPath |-> session.TaskPath, taskName |-> session.TaskName,
                  prompt |-> text, sessionID |-> session.SessionID]]

\* What became of the files attached to a thread message: there were none,
\* or DownloadToTask saved them under the task directory, or it failed.
Files == {"none", "saved", "failed"}

\* prompt := ev.Text, and the paths of the downloaded files behind it.
WithFiles(text, files) ==
  IF files = "saved"
  THEN text \o <<"\n\n", "Attached files have been saved to:", "\n", "- inputs/file", "\n">>
  ELSE text

Route(h) == IF hs[h].kind = "mention"
            THEN RouteMention(sessions[hs[h].thread], hs[h].text)
            ELSE RouteMessage(sessions[hs[h].thread], hs[h].user,
                              WithFiles(hs[h].text, hs[h].files))

\* The messages a handler posts before runClod: what it says about the
\* attached files, then its status line.
RoutePosts(h) ==
  (IF hs[h].files = "none" THEN <<>>
   ELSE IF hs[h].files = "saved" THEN <<Msg(hs[h].thread, "downloading", <<>>, 0)>>
   ELSE <<Msg(hs[h].thread, "downloading", <<>>, 0),
          Msg(hs[h].thread, "download-failed", <<>>, 0)>>)
  \o <<Msg(hs[h].thread, Route(h).post, <<>>, 0)>>

\* The handler reads the session store, answers in the thread and stops
\* without starting a task.
RouteStop(h) ==
  /\ At(h, "route")
  /\ ~Route(h).run
  /\ chat' = IF Route(h).post = "" THEN chat
             ELSE Post(chat, Msg(hs[h].thread, Route(h).post, <<>>, 0))
  /\ hs' = Finish(h)
  /\ UNCHANGED <<runtime, runningTasks, pendingPermissions, sessions, file, claude, tasks, env, crashed>>

\* The handler posts its status line and runClod calls Runner.Start, which
\* launches the subprocess under a PTY and starts the reader worker.
\* sfx is the runtime suffix NewPermissionFIFO draws, prompt says whether
\* an agent prompt file is configured and found.
RouteStartWith(h, grp, sfx, prompt) ==
  /\ At(h, "route")
  /\ Route(h).run
  /\ Len(tasks) < MaxTasks
  /\ chat' = PostAll(chat, hs[h].thread, RoutePosts(h))
  /\ tasks' = Append(tasks, [NewTask(hs[h].thread, Route(h).args, grp) EXCEPT !.suffix = sfx])
  /\ runtime' = [runtime EXCEPT ![Route(h).args.taskPath][sfx] =
                   CreateMCPConfig(NewPermissionFIFO(@, Len(tasks) + 1, prompt), Len(tasks) + 1)]
  /\ hs' = [hs EXCEPT ![h].pc = "store", ![h].task = Len(tasks) + 1, ![h].args = Route(h).args]
  /\ UNCHANGED <<runningTasks, pendingPermissions, sessions, file, claude, env, crashed>>

\* A suffix no instance started so far has drawn, while there is one.
UnusedSuffix ==
  LET used == {tasks[t].suffix : t \in TaskIds}
  IN IF Suffixes \ used # {} THEN CHOOSE s \in Suffixes \ used : TRUE
     ELSE CHOOSE s \in Suffixes : TRUE

\* Runner.Start where no agent prompt is configured and the draw differs
\* from the earlier ones.
RouteStart(h, grp) == RouteStartWith(h, grp, UnusedSuffix, FALSE)

\* The steps at which Runner.Start can return an error: inside
\* NewPermissionFIFO before anything is on disk ("mkdir") or at Mkfifo,
\* with the directory, the agent prompt and the script written and the
\* pipes found at the paths removed ("mkfifo"); at CreateMCPConfig
\* ("config"); at pty.Start ("pty").
FailSteps == {"mkdir", "mkfifo", "config", "pty"}

\* What a failed Start leaves of the directory runtime-<suffix>: at "config"
\* and "pty" permFIFO.Close() has run.
FailedStart(dir, t, prompt, step) ==
  CASE step = "mkdir" -> dir
    [] step = "mkfifo" -> [NewPermissionFIFO(dir, t, prompt) EXCEPT ![FIFORequestName] = 0,
                                                                     ![FIFOResponseName] = 0]
    [] step = "config" -> Close(NewPermissionFIFO(dir, t, prompt))
    [] OTHER -> Close(CreateMCPConfig(NewPermissionFIFO(dir, t, prompt), t))

\* Runner.Start returns an error at step: cancel() is called, nothing of
\* the task exists (PermissionFIFO.Start and the reader worker come after
\* pty.Start), runClod reports in the thread and returns.
RouteStartFailsAt(h, step, sfx, prompt) ==
  /\ At(h, "route")
  /\ Route(h).run
  /\ chat' = PostAll(chat, hs[h].thread,
                     RoutePosts(h) \o <<Msg(hs[h].thread, "start-failed", <<>>, 0)>>)
  /\ runtime' = [runtime EXCEPT ![Route(h).args.taskPath][sfx] =
                   FailedStart(@, Len(tasks) + 1, prompt, step)]
  /\ hs' = Finish(h)
  /\ UNCHANGED <<runningTasks, pendingPermissions, sessions, file, claude, tasks, env, crashed>>

\* Runner.Start fails before it has written anything.
RouteStartFails(h) == RouteStartFailsAt(h, "mkdir", UnusedSuffix, FALSE)

\* h.runningTasks.Store(progressKey, task)
Store(h) ==
  /\ At(h, "store")
  /\ runningTasks' = [runningTasks EXCEPT ![hs[h].thread] = hs[h].task]
  /\ hs' = [hs EXCEPT ![h].pc = "loop"]
  /\ UNCHANGED <<runtime, pendingPermissions, sessions, file, claude, tasks, chat, env, crashed>>

HandleMessage(h, user, thread, text, botID, inThread, files) ==
  /\ Arrive(h)
  /\ IF botID # "" \/ ~inThread \/ StartsWithMention(text)
     THEN UNCHANGED hs
     ELSE hs' = [hs EXCEPT ![h] = [Idle EXCEPT !.kind = "message",
                                               !.pc = IF runningTasks[thread] # 0
                                                      THEN "pending" ELSE "route",
                                               !.user = user, !.thread = thread,
                                               !.text = text,
                                               !.task = runningTasks[thread],
                                               !.files = IF runningTasks[thread] # 0
                                                         THEN "none" ELSE files]]
  /\ UNCHANGED <<runtime, runningTasks, pendingPermissions, sessions, file, claude, tasks, chat, crashed>>

\* A send on the closed responses channel panics and takes the bot down.
SendResponseTo(t, resp, tag) ==
  IF tasks[t].fifoClosed
  THEN /\ crashed' = "panic"
       /\ UNCHANGED tasks
  ELSE /\ tasks' = [tasks EXCEPT ![t] = SendPermissionResponse(@, resp, tag)]
       /\ UNCHANGED crashed

\* updatePermissionMessage: the prompt message is rewritten to the outcome.
UpdatePermissionMessage(c, perm, behavior, userID) ==
  [c EXCEPT ![perm.ThreadTS][perm.MessageTS].kind = "answered",
            ![perm.ThreadTS][perm.MessageTS].body = <<behavior>>,
            ![perm.ThreadTS][perm.MessageTS].by = userID]

\* HandleMessage with a task running in the thread: the pending permission
\* is looked up and the text is taken as a decision, or reminded about, or
\* forwarded as input.
MessagePending(h) ==
  /\ At(h, "pending")
  /\ hs[h].kind = "message"
  /\ LET perm == pendingPermissions[hs[h].thread]
         resp == parsePermissionResponse(hs[h].text)
     IN IF perm # NoPending
        THEN IF resp # NoResp
             THEN /\ SendResponseTo(hs[h].task, resp, [prompt |-> perm.MessageTS, by |-> hs[h].user, tool |-> perm.ToolName])
                  /\ hs' = [hs EXCEPT ![h].pc = "delete", ![h].perm = perm, ![h].resp = resp]
                  /\ UNCHANGED chat
             ELSE /\ chat' = Post(chat, Msg(hs[h].thread, "reminder", <<>>, 0))
                  /\ hs' = Finish(h)
                  /\ UNCHANGED <<tasks, crashed>>
        ELSE /\ tasks' = [tasks EXCEPT ![hs[h].task] = SendInput(@, hs[h].text, hs[h].user)]
             /\ hs' = Finish(h)
             /\ UNCHANGED <<chat, crashed>>
  /\ UNCHANGED <<runtime, runningTasks, pendingPermissions, sessions, file, claude, env>>

\* h.pendingPermissions.Delete and the rewrite of the prompt message, the
\* end of both decision paths (text reply and button click).
DeletePending(h) ==
  /\ At(h, "delete")
  /\ LET k == IF hs[h].kind = "click" THEN hs[h].click.k ELSE hs[h].thread
         behavior == IF hs[h].kind = "click" THEN hs[h].click.b ELSE hs[h].resp.Behavior
     IN /\ pendingPermissions' = [pendingPermissions EXCEPT ![k] = NoPending]
        /\ chat' = UpdatePermissionMessage(chat, hs[h].perm, behavior, hs[h].user)
  /\ hs' = Finish(h)
  /\ UNCHANGED <<runtime, runningTasks, sessions, file, claude, tasks, env, crashed>>

ActionIDs ==
  {"permission_allow", "permission_deny", "permission_allow_always",
   "permission_allow_similar", "other_action"}

isPermissionAction(actionID) ==
  actionID \in {"permission_allow", "permission_deny", "permission_allow_always",
                "permission_allow_similar"}

\* The value buildPermissionBlocks gave the button of a prompt message.
ButtonValue(m, actionID) ==
  [k |-> m.thread,
   b |-> IF actionID = "permission_deny" THEN "deny" ELSE "allow",
   r |-> IF actionID = "permission_allow_always" THEN <<m.tool>>
         ELSE IF actionID = "permission_allow_similar" THEN m.similar
         ELSE <<>>]

\* The buttons a prompt message was posted with.
HasButton(m, actionID) ==
  /\ m.tool # ""
  /\ actionID = "permission_allow_similar" => (m.similar # <<>> /\ m.similar # <<m.tool>>)

\* A click that finds no running task returns without touching the prompt.
HandleBlockAction_Silent(h, user, thread, ts, actionID) ==
  /\ Arrive(h)
  /\ ts \in 1..Len(chat[thread])
  /\ HasButton(chat[thread][ts], actionID)
  /\ LET v == ButtonValue(chat[thread][ts], actionID)
     IN IF ~isPermissionAction(actionID) \/ runningTasks[v.k] = 0
        THEN UNCHANGED <<hs, chat>>
        ELSE /\ hs' = [hs EXCEPT ![h] = [Idle EXCEPT !.kind = "click", !.pc = "pending",
                                                     !.user = user, !.thread = v.k,
                                                     !.task = runningTasks[v.k],
                                                     !.click = [msg |-> ts, actionID |-> actionID,
                                                                k |-> v.k, b |-> v.b, r |-> v.r,
                                                                name |-> user]]]
             /\ UNCHANGED chat
  /\ UNCHANGED <<runtime, runningTasks, pendingPermissions, sessions, file, claude, tasks, crashed>>

HandleBlockAction(h, user, thread, ts, actionID) ==
  /\ Arrive(h)
  /\ ts \in 1..Len(chat[thread])
  /\ HasButton(chat[thread][ts], actionID)
  /\ LET v == ButtonValue(chat[thread][ts], actionID)
     IN IF ~isPermissionAction(actionID)
        THEN UNCHANGED <<hs, chat>>
        ELSE IF runningTasks[v.k] = 0
        THEN /\ chat' = [chat EXCEPT ![thread][ts].kind = "stale"]
             /\ UNCHANGED hs
        ELSE /\ hs' = [hs EXCEPT ![h] = [Idle EXCEPT !.kind = "click", !.pc = "pending",
                                                     !.user = user, !.thread = v.k,
                                                     !.task = runningTasks[v.k],
                                                     !.click = [msg |-> ts, actionID |-> actionID,
                                                                k |-> v.k, b |-> v.b, r |-> v.r,
                                                                name |-> user]]]
             /\ UNCHANGED chat
  /\ UNCHANGED <<runtime, runningTasks, pendingPermissions, sessions, file, claude, tasks, crashed>>

\* HandleBlockAction after the task lookup: the pending permission is
\* looked up and the response is sent.
ClickPending(h) ==
  /\ At(h, "pending")
  /\ hs[h].kind = "click"
  /\ LET perm == pendingPermissions[hs[h].click.k]
         resp == [Behavior |-> hs[h].click.b,
                  Message |-> IF hs[h].click.b = "deny"
                              THEN "User " \o hs[h].click.name \o " denied permission"
                              ELSE ""]
     IN IF perm = NoPending
        THEN /\ hs' = Finish(h)
             /\ UNCHANGED <<tasks, crashed>>
        ELSE /\ SendResponseTo(hs[h].task, resp, [prompt |-> perm.MessageTS, by |-> hs[h].user, tool |-> perm.ToolName])
             /\ hs' = [hs EXCEPT ![h].pc = IF hs[h].click.r # <<>> /\ hs[h].click.b = "allow"
                                           THEN "save" ELSE "delete",
                                 ![h].perm = perm, ![h].resp = resp]
  /\ UNCHANGED <<runtime, runningTasks, pendingPermissions, sessions, file, claude, chat, env>>

\* A savePermissionRule that leaves the list as it finds it.
savePermissionRule_Keep(allowedTools, pattern) == allowedTools

\* Bot.savePermissionRule on the allowedTools list of the task directory.
savePermissionRule(allowedTools, pattern) ==
  IF \E i \in 1..Len(allowedTools) : allowedTools[i] = pattern
  THEN allowedTools
  ELSE Append(allowedTools, pattern)

\* Bot.savePermissionRule on the document: read and parse, ensure the
\* projects subtree, return at a rule that is there, else append the rule
\* and rewrite the whole document.
saveRuleDocument(config, pattern) ==
  LET project == IF config.projectsOk /\ config.project.ok
                 THEN config.project
                 ELSE [NoProject EXCEPT !.ok = TRUE]
      allowedTools == IF project.toolsOk THEN project.allowedTools ELSE <<>>
  IN IF savePermissionRule(allowedTools, pattern) = allowedTools
     THEN config
     ELSE RoundTrip([config EXCEPT
                       !.projectsOk = TRUE,
                       !.project = [project EXCEPT
                                      !.toolsOk = TRUE,
                                      !.allowedTools = savePermissionRule(allowedTools, pattern)]])

\* Bot.savePermissionRule as HandleBlockAction calls it, in its two
\* accesses to the file: os.ReadFile gives the document as it is now ...
ClickSaveRead(h) ==
  /\ At(h, "save")
  /\ hs[h].kind = "click"
  /\ hs' = [hs EXCEPT ![h].data = claude[tasks[hs[h].task].taskPath], ![h].pc = "saveWrite"]
  /\ UNCHANGED <<runtime, runningTasks, pendingPermissions, sessions, file, claude, tasks, chat, env, crashed>>

\* ... and os.WriteFile replaces the file by the document that was read
\* with the rule appended, unless the rule was in the document read: then
\* nothing is written.  Nothing holds the file between the two.
ClickSaveWrite(h) ==
  /\ At(h, "saveWrite")
  /\ hs[h].kind = "click"
  /\ claude' = IF saveRuleDocument(hs[h].data, hs[h].click.r) = hs[h].data
               THEN claude
               ELSE [claude EXCEPT ![tasks[hs[h].task].taskPath] =
                       saveRuleDocument(hs[h].data, hs[h].click.r)]
  /\ hs' = [hs EXCEPT ![h].data = <<>>, ![h].pc = "delete"]
  /\ UNCHANGED <<runtime, runningTasks, pendingPermissions, sessions, file, tasks, chat, env, crashed>>

ClickSave(h) ==
  \/ ClickSaveRead(h)
  \/ ClickSaveWrite(h)

(***************************************************************************)
(* runClod: the select loop of the dispatcher (handler.go).                *)
(***************************************************************************)
InLoop(h) == At(h, "loop")

\* flushBuffer: what it posts for the buffer (nothing for an empty or blank one).
FlushPosts(thread, task, buf) ==
  IF buf # <<>> /\ TrimSpace(buf) # <<>>
  THEN << Msg(thread, "text", ConvertMarkdownToMrkdwn(TrimSpace(buf)), task) >>
  ELSE <<>>

\* How the loop takes one item received on task.Output(): "stats",
\* "snippet" or "text".
ItemClass(content) ==
  IF HasPrefix(content, <<"__STATS__">>) THEN "stats"
  ELSE IF HasPrefix(content, <<"__SNIPPET__">>) THEN "snippet"
  ELSE "text"

\* strings.SplitN(payload, NUL, 3) gives three parts.
SnippetWellFormed(content) ==
  Cardinality({i \in 2..Len(content) : content[i] = "NUL"}) >= 2

\* json.Unmarshal of the stats payload succeeds.
StatsWellFormed(content) == content = <<"__STATS__", "{stats}">>

\* The chat messages and the buffer after the loop has handled one item.
HandleItem_NoFlush(thread, task, buf, content) ==
  [posts |-> IF ItemClass(content) = "text" THEN <<>>
             ELSE << Msg(thread, ItemClass(content), content, task) >>,
   buf |-> IF ItemClass(content) = "text" THEN buf \o content ELSE buf]

HandleItem(thread, task, buf, content) ==
  IF ItemClass(content) = "stats"
  THEN [posts |-> FlushPosts(thread, task, buf)
                    \o (IF StatsWellFormed(content)
                        THEN << Msg(thread, "stats", content, task) >> ELSE <<>>),
        buf |-> <<>>]
  ELSE IF ItemClass(content) = "snippet"
  THEN [posts |-> FlushPosts(thread, task, buf)
                    \o (IF SnippetWellFormed(content)
                        THEN << Msg(thread, "snippet", content, task) >> ELSE <<>>),
        buf |-> <<>>]
  ELSE IF StrLen(buf \o content) >= maxBatchLen
  THEN [posts |-> FlushPosts(thread, task, buf \o content), buf |-> <<>>]
  ELSE [posts |-> <<>>, buf |-> buf \o content]

\* case content, ok := <-task.Output(), with ok
LoopOutput(h) ==
  /\ InLoop(h)
  /\ tasks[hs[h].task].output # <<>>
  /\ LET r == HandleItem(hs[h].thread, hs[h].task, hs[h].buf, Head(tasks[hs[h].task].output))
     IN /\ chat' = PostAll(chat, hs[h].thread, r.posts)
        /\ hs' = [hs EXCEPT ![h].buf = r.buf]
  /\ tasks' = [tasks EXCEPT ![hs[h].task].output = Tail(@)]
  /\ UNCHANGED <<runtime, runningTasks, pendingPermissions, sessions, file, claude, env, crashed>>

\* case content, ok := <-task.Output(), with !ok: flush and goto done
LoopOutputClosed_Return(h) ==
  /\ InLoop(h)
  /\ tasks[hs[h].task].output = <<>>
  /\ tasks[hs[h].task].outputClosed
  /\ chat' = PostAll(chat, hs[h].thread, FlushPosts(hs[h].thread, hs[h].task, hs[h].buf))
  /\ hs' = [hs EXCEPT ![h].buf = <<>>, ![h].pc = "defer"]
  /\ UNCHANGED <<runtime, runningTasks, pendingPermissions, sessions, file, claude, tasks, env, crashed>>

LoopOutputClosed(h) ==
  /\ InLoop(h)
  /\ tasks[hs[h].task].output = <<>>
  /\ tasks[hs[h].task].outputClosed
  /\ chat' = PostAll(chat, hs[h].thread, FlushPosts(hs[h].thread, hs[h].task, hs[h].buf))
  /\ hs' = [hs EXCEPT ![h].buf = <<>>, ![h].pc = "wait"]
  /\ UNCHANGED <<runtime, runningTasks, pendingPermissions, sessions, file, claude, tasks, env, crashed>>

\* case <-ticker.C
LoopTick(h) ==
  /\ InLoop(h)
  /\ hs[h].buf # <<>>
  /\ chat' = PostAll(chat, hs[h].thread, FlushPosts(hs[h].thread, hs[h].task, hs[h].buf))
  /\ hs' = [hs EXCEPT ![h].buf = <<>>]
  /\ UNCHANGED <<runtime, runningTasks, pendingPermissions, sessions, file, claude, tasks, env, crashed>>

\* Handler.isPermissionAllowed on the rules read from claude.json.
isPermissionAllowed_Never(allowedTools, toolName, toolInput) == FALSE

isPermissionAllowed(allowedTools, toolName, toolInput) ==
  \E i \in 1..Len(allowedTools) : matchesPermissionRule(allowedTools[i], toolName, toolInput)

\* case req, ok := <-permRequests, a saved rule matches: allow at once.
LoopPermissionAllowed(h) ==
  /\ InLoop(h)
  /\ tasks[hs[h].task].requests # <<>>
  /\ LET t == hs[h].task
         req == Head(tasks[t].requests)
     IN /\ isPermissionAllowed(AllowedTools(claude[tasks[t].taskPath]), req.ToolName, req.ToolInput)
        /\ IF tasks[t].fifoClosed
           THEN /\ crashed' = "panic"
                /\ tasks' = [tasks EXCEPT ![t].requests = Tail(@)]
           ELSE /\ tasks' = [tasks EXCEPT ![t] =
                               SendPermissionResponse([@ EXCEPT !.requests = Tail(@)],
                                                      [Behavior |-> "allow", Message |-> ""],
                                                      [prompt |-> 0, by |-> "", tool |-> req.ToolName])]
                /\ UNCHANGED crashed
  /\ UNCHANGED <<runtime, runningTasks, pendingPermissions, sessions, file, claude, hs, chat, env>>

\* case req, ok := <-permRequests, no rule matches: flush, post the prompt,
\* record the pending permission.
LoopPermissionPrompt(h) ==
  /\ InLoop(h)
  /\ tasks[hs[h].task].requests # <<>>
  /\ LET t == hs[h].task
         req == Head(tasks[t].requests)
         flushed == PostAll(chat, hs[h].thread, FlushPosts(hs[h].thread, t, hs[h].buf))
         prompt == [Msg(hs[h].thread, "prompt", <<>>, t) EXCEPT
                      !.tool = req.ToolName, !.input = req.ToolInput,
                      !.similar = generateSimilarPattern(req.ToolName, req.ToolInput)]
     IN /\ ~isPermissionAllowed(AllowedTools(claude[tasks[t].taskPath]), req.ToolName, req.ToolInput)
        /\ chat' = Post(flushed, prompt)
        /\ pendingPermissions' =
             [pendingPermissions EXCEPT ![hs[h].thread] =
                [MessageTS |-> Len(flushed[hs[h].thread]) + 1, ThreadTS |-> hs[h].thread,
                 ToolName |-> req.ToolName,
                 ToolInput |-> req.ToolInput]]
        /\ tasks' = [tasks EXCEPT ![t].requests = Tail(@)]
  /\ hs' = [hs EXCEPT ![h].buf = <<>>]
  /\ UNCHANGED <<runtime, runningTasks, sessions, file, claude, env, crashed>>

\* A loop that goes on to the next item after a failed post without
\* answering the request.
LoopPermissionPostFails_Silent(h) ==
  /\ InLoop(h)
  /\ tasks[hs[h].task].requests # <<>>
  /\ LET t == hs[h].task
         req == Head(tasks[t].requests)
     IN /\ ~isPermissionAllowed(AllowedTools(claude[tasks[t].taskPath]), req.ToolName, req.ToolInput)
        /\ chat' = PostAll(chat, hs[h].thread, FlushPosts(hs[h].thread, t, hs[h].buf))
        /\ tasks' = [tasks EXCEPT ![t].requests = Tail(@)]
  /\ hs' = [hs EXCEPT ![h].buf = <<>>]
  /\ UNCHANGED <<runtime, runningTasks, pendingPermissions, sessions, file, claude, env, crashed>>

\* ... and PostMessageBlocks fails: deny, nothing recorded.
LoopPermissionPostFails(h) ==
  /\ InLoop(h)
  /\ tasks[hs[h].task].requests # <<>>
  /\ LET t == hs[h].task
         req == Head(tasks[t].requests)
     IN /\ ~isPermissionAllowed(AllowedTools(claude[tasks[t].taskPath]), req.ToolName, req.ToolInput)
        /\ chat' = PostAll(chat, hs[h].thread, FlushPosts(hs[h].thread, t, hs[h].buf))
        /\ IF tasks[t].fifoClosed
           THEN /\ crashed' = "panic"
                /\ tasks' = [tasks EXCEPT ![t].requests = Tail(@)]
           ELSE /\ tasks' = [tasks EXCEPT ![t] =
                               SendPermissionResponse([@ EXCEPT !.requests = Tail(@)],
                                                      [Behavior |-> "deny",
                                                       Message |-> "Failed to prompt user"],
                                                      [prompt |-> 0, by |-> "", tool |-> req.ToolName])]
                /\ UNCHANGED crashed
  /\ hs' = [hs EXCEPT ![h].buf = <<>>]
  /\ UNCHANGED <<runtime, runningTasks, pendingPermissions, sessions, file, claude, env>>

\* SessionStore.Set: the mapping is stored under its own thread key.
Set_Everywhere(store, k, mapping) == [th \in Threads |-> mapping]

Set(store, k, mapping) == [store EXCEPT ![k] = mapping]

\* The receive of the terminal result, in the loop (case result :=
\* <-task.Done()) or after it (done:), and what follows it at once: flush,
\* the completion message, SessionStore.Set.  A receive on the closed and
\* empty channel gives nil, and result.Error panics.
Receive(h) ==
  LET t == hs[h].task
  IN /\ tasks[t].done # <<>> \/ tasks[t].doneClosed
     /\ IF tasks[t].done = <<>>
        THEN /\ crashed' = "panic"
             /\ UNCHANGED <<chat, sessions, tasks, hs>>
        ELSE LET result == Head(tasks[t].done)
             IN /\ chat' = Post(PostAll(chat, hs[h].thread, FlushPosts(hs[h].thread, t, hs[h].buf)),
                                Msg(hs[h].thread, "final", <<result.Error>>, t))
                /\ sessions' =
                     IF result.SessionID # ""
                     THEN Set(sessions, hs[h].thread,
                              [TaskName |-> hs[h].args.taskName, TaskPath |-> hs[h].args.taskPath,
                               SessionID |-> result.SessionID, UserID |-> hs[h].user,
                               CreatedAt |-> 1])
                     ELSE sessions
                /\ tasks' = [tasks EXCEPT ![t].done = Tail(@)]
                /\ hs' = [hs EXCEPT ![h].buf = <<>>, ![h].result = result,
                                    ![h].exit = IF hs[h].pc = "loop" THEN "result" ELSE "closed",
                                    ![h].pc = IF result.SessionID # "" THEN "save" ELSE "defer"]
                /\ UNCHANGED crashed
     /\ UNCHANGED <<runtime, runningTasks, pendingPermissions, file, claude, env>>

LoopDone(h) == InLoop(h) /\ Receive(h)

WaitDone(h) == At(h, "wait") /\ Receive(h)

(***************************************************************************)
(* SessionStore.Save (session.go), called by runClod.                      *)
(***************************************************************************)
Dispatching(h) == hs[h].kind \in {"mention", "message"}

\* The snapshot under the read lock and its serialization.
SaveSnapshot(h) ==
  /\ At(h, "save")
  /\ Dispatching(h)
  /\ hs' = [hs EXCEPT ![h].data = Marshal(sessions), ![h].pc = "create"]
  /\ UNCHANGED <<runtime, runningTasks, pendingPermissions, sessions, file, claude, tasks, chat, env, crashed>>

StorePath == "sessions.json"

\* The name os.CreateTemp(dir, "sessions-*.json.tmp") gives the temp file:
\* a new file beside the store, never the store itself.
CreateTemp_Dest(h) == StorePath

CreateTemp(h) == "sessions-" \o ToString(h) \o ".json.tmp"

\* os.CreateTemp, tmpFile.Write and tmpFile.Close in turn, on the file
\* CreateTemp named.
SaveTemp(h) ==
  /\ crashed = ""
  /\ hs[h].pc \in {"create", "write", "close"}
  /\ hs' = [hs EXCEPT ![h].tmp = CASE hs[h].pc = "create" -> "empty"
                                   [] hs[h].pc = "write" -> "written"
                                   [] OTHER -> "closed",
                      ![h].pc = CASE hs[h].pc = "create" -> "write"
                                  [] hs[h].pc = "write" -> "close"
                                  [] OTHER -> "rename"]
  /\ file' = IF CreateTemp(h) = StorePath
             THEN (CASE hs[h].pc = "create" -> PartialFile
                     [] hs[h].pc = "write" -> hs[h].data
                     [] OTHER -> file)
             ELSE file
  /\ UNCHANGED <<runtime, runningTasks, pendingPermissions, sessions, claude, tasks, chat, env, crashed>>

\* What os.Rename(tmpPath, s.path) leaves at s.path.
Rename(old, data) == data

SaveRename(h) ==
  /\ At(h, "rename")
  /\ file' = Rename(file, hs[h].data)
  /\ hs' = [hs EXCEPT ![h].tmp = "none", ![h].pc = "defer"]
  /\ UNCHANGED <<runtime, runningTasks, pendingPermissions, sessions, claude, tasks, chat, env, crashed>>

\* A step of Save fails: the temp file is closed and removed, the error is
\* returned and logged by runClod.
SaveFails(h) ==
  /\ crashed = ""
  /\ hs[h].pc \in {"create", "write", "close", "rename"}
  /\ hs' = [hs EXCEPT ![h].tmp = "none", ![h].saveErr = TRUE, ![h].pc = "defer"]
  /\ UNCHANGED <<runtime, runningTasks, pendingPermissions, sessions, file, claude, tasks, chat, env, crashed>>

\* The deferred calls of runClod, last registered first.
DeferPending(h) ==
  /\ At(h, "defer")
  /\ pendingPermissions' = [pendingPermissions EXCEPT ![hs[h].thread] = NoPending]
  /\ hs' = [hs EXCEPT ![h].pc = "defer2"]
  /\ UNCHANGED <<runtime, runningTasks, sessions, file, claude, tasks, chat, env, crashed>>

DeferRunning(h) ==
  /\ At(h, "defer2")
  /\ runningTasks' = [runningTasks EXCEPT ![hs[h].thread] = 0]
  /\ hs' = Finish(h)
  /\ UNCHANGED <<runtime, pendingPermissions, sessions, file, claude, tasks, chat, env, crashed>>

\* FileHandler.WatchOutputs, the goroutine runClod starts beside its loop:
\* at a tick it finds a file the agent wrote into the task directory, not
\* uploaded before, and uploads it into the thread.  It runs until runClod
\* returns and closes outputWatchDone.
WatchOutputs(h, name) ==
  /\ crashed = ""
  /\ Dispatching(h)
  /\ hs[h].pc \in {"loop", "wait", "save", "create", "write", "rename", "defer", "defer2"}
  /\ \A i \in 1..Len(chat[hs[h].thread]) :
       ~(/\ chat[hs[h].thread][i].kind = "file"
         /\ chat[hs[h].thread][i].body = <<name>>
         /\ chat[hs[h].thread][i].task = hs[h].task)
  /\ chat' = Post(chat, Msg(hs[h].thread, "file", <<name>>, hs[h].task))
  /\ UNCHANGED <<runtime, runningTasks, pendingPermissions, sessions, file, claude, tasks, hs, env, crashed>>

(***************************************************************************)
(* FileHandler.WatchOutputs and uploadNewFiles step by step, with the      *)
(* writes other processes make to the task directory in between.           *)
(***************************************************************************)
\* runClod has started the watcher of task t (it is past runningTasks.Store).
WatchStarted(t) ==
  \A h \in HandlerIds : (Dispatching(h) /\ hs[h].task = t) => hs[h].pc # "store"

\* outputWatchDone is closed: the first deferred call of runClod has run.
WatchDoneClosed(t) ==
  \A h \in HandlerIds :
    (Dispatching(h) /\ hs[h].task = t)
      => hs[h].pc \notin {"store", "loop", "wait", "save", "create", "write", "rename", "defer"}

Watcher(t, pc) == crashed = "" /\ t \in TaskIds /\ tasks[t].watch.pc = pc

WatchStep(t, w) ==
  /\ tasks' = [tasks EXCEPT ![t].watch = w]
  /\ UNCHANGED <<runtime, runningTasks, pendingPermissions, sessions, file, claude, hs, chat, env, crashed>>

\* The entry is done with in this scan.
Skip(w, n) == [w EXCEPT !.pc = "scan", !.left = @ \ {n}]

\* Some process creates the file or writes to it; grow says whether its
\* size changes.
FileWrite(n, grow) ==
  /\ crashed = ""
  /\ env.writes > 0
  /\ env' = [env EXCEPT !.writes = @ - 1,
                        !.dir[n] = [there |-> TRUE,
                                    modTime |-> MaxWrites - env.writes + 1,
                                    size |-> IF grow \/ ~@.there THEN @.size + 1 ELSE @.size]]
  /\ UNCHANGED <<runtime, runningTasks, pendingPermissions, sessions, file, claude, tasks, hs, chat, crashed>>

\* A second passes.
ClockTick ==
  /\ crashed = ""
  /\ env.now < MaxTime
  /\ env' = [env EXCEPT !.now = @ + 1]
  /\ UNCHANGED <<runtime, runningTasks, pendingPermissions, sessions, file, claude, tasks, hs, chat, crashed>>

\* The initial os.ReadDir: every entry found is tracked with its
\* modification time and time.Now().
WatchStart(t) ==
  /\ Watcher(t, "off")
  /\ WatchStarted(t)
  /\ LET found == [n \in OutputNames |->
                    IF env.dir[n].there
                    THEN [tracked |-> TRUE, modTime |-> env.dir[n].modTime,
                          lastUploadTime |-> env.now]
                    ELSE NoUpload]
     IN WatchStep(t, [tasks[t].watch EXCEPT !.pc = "idle", !.uploaded = found,
                                            !.initial = found])

\* The select of WatchOutputs takes the ticker, or done once it is closed,
\* and uploadNewFiles reads the directory.
WatchScan(t, final) ==
  /\ Watcher(t, "idle")
  /\ final => WatchDoneClosed(t)
  /\ WatchStep(t, [tasks[t].watch EXCEPT !.pc = "scan", !.final = final,
                                         !.left = {n \in OutputNames : env.dir[n].there}])

\* The loop body up to time.Sleep: entry.Info() and shouldUpload.
WatchCheck(t, n) ==
  /\ Watcher(t, "scan")
  /\ n \in tasks[t].watch.left
  /\ LET w == tasks[t].watch
         info1 == env.dir[n]
         tracked == w.uploaded[n]
         shouldUpload ==
           IF ~tracked.tracked THEN TRUE
           ELSE /\ info1.modTime > tracked.modTime
                /\ env.now - tracked.lastUploadTime >= cooldownPeriod
     IN WatchStep(t, IF shouldUpload
                     THEN [w EXCEPT !.pc = "settle", !.name = n, !.size = info1.size]
                     ELSE Skip(w, n))

\* After the sleep: os.Stat and the comparison of the two sizes.
WatchSettle(t) ==
  /\ Watcher(t, "settle")
  /\ LET w == tasks[t].watch
         info2 == env.dir[w.name]
     IN WatchStep(t, IF w.size # info2.size
                     THEN Skip(w, w.name)
                     ELSE [w EXCEPT !.pc = "upload", !.modTime = info2.modTime])

\* UploadFromTaskOutputs sends the file as it is now, and the entry is
\* tracked with the modification time info2 had and time.Now().
WatchUpload(t) ==
  /\ Watcher(t, "upload")
  /\ LET w == tasks[t].watch
     IN /\ tasks' = [tasks EXCEPT ![t].watch =
                       [Skip(w, w.name) EXCEPT
                          !.uploaded[w.name] = [tracked |-> TRUE, modTime |-> w.modTime,
                                                lastUploadTime |-> env.now],
                          !.log = Append(@, [name |-> w.name,
                                             modTime |-> env.dir[w.name].modTime,
                                             seen |-> w.modTime,
                                             at |-> env.now])]]
        /\ chat' = Post(chat, Msg(tasks[t].thread, "file", <<w.name>>, t))
  /\ UNCHANGED <<runtime, runningTasks, pendingPermissions, sessions, file, claude, hs, env, crashed>>

\* The upload fails: the entry stays as it was tracked.
WatchUploadFails(t) ==
  /\ Watcher(t, "upload")
  /\ WatchStep(t, Skip(tasks[t].watch, tasks[t].watch.name))

\* uploadNewFiles returns: back to the select, or the return after the
\* final check.
WatchReturn(t) ==
  /\ Watcher(t, "scan")
  /\ tasks[t].watch.left = {}
  /\ WatchStep(t, [tasks[t].watch EXCEPT !.pc = IF @ = "scan" /\ tasks[t].watch.final
                                                 THEN "end" ELSE "idle"])

\* The bot process is killed (power loss, SIGKILL): nothing runs any more,
\* the files stay as they are.
Crash ==
  /\ crashed = ""
  /\ crashed' = "kill"
  /\ UNCHANGED <<runtime, runningTasks, pendingPermissions, sessions, file, claude, tasks, hs, chat, env>>

(***************************************************************************)
(* CLI.Run (cli.go): the main goroutine waits for a signal or for the end  *)
(* of bot.Run.  env.signals counts the signals it has taken.  The root     *)
(* context is context.Background() (main.go) and has no cancel function;   *)
(* Bot.Shutdown writes a log line; the handlers run under their own        *)
(* context.Background().  crashed tells how the process ended: "forced",   *)
(* "timeout" and "failed" are exits with code 1.                           *)
(***************************************************************************)
\* case <-signals: the first SIGINT or SIGTERM; bot.Shutdown() is called and
\* main waits in the second select.
Signal ==
  /\ crashed = ""
  /\ env.signals = 0
  /\ env' = [env EXCEPT !.signals = 1]
  /\ UNCHANGED <<runtime, runningTasks, pendingPermissions, sessions, file, claude, tasks, hs, chat, crashed>>

\* case <-signals in the second select: os.Exit(1).
SignalAgain ==
  /\ crashed = ""
  /\ env.signals = 1
  /\ env' = [env EXCEPT !.signals = 2]
  /\ crashed' = "forced"
  /\ UNCHANGED <<runtime, runningTasks, pendingPermissions, sessions, file, claude, tasks, hs, chat>>

\* case <-time.After(cli.GracefulShutdownTTL): os.Exit(1).
ShutdownTTL ==
  /\ crashed = ""
  /\ env.signals = 1
  /\ crashed' = "timeout"
  /\ UNCHANGED <<runtime, runningTasks, pendingPermissions, sessions, file, claude, tasks, hs, chat, env>>

\* case err = <-errors: bot.Run ended with an error of the socket
\* connection (with a context that is never cancelled it does not return
\* otherwise); main saves the session store, which may fail, and returns
\* the error: exit code 1.
RunError ==
  /\ crashed = ""
  /\ file' \in {file, Marshal(sessions)}
  /\ crashed' = "failed"
  /\ UNCHANGED <<runtime, runningTasks, pendingPermissions, sessions, claude, tasks, hs, chat, env>>

(***************************************************************************)
(* The reader worker of Runner.Start (runner.go) and what surrounds it:    *)
(* the subprocess, its process group, runCtx and the permission FIFO.      *)
(***************************************************************************)
Reader(t, pc) == crashed = "" /\ t \in TaskIds /\ tasks[t].rpc = pc

\* Some process still holds the slave side of the PTY.
PtyHeld(t) == tasks[t].leader = "running" \/ tasks[t].group

\* The agent writes a line and scanner.Scan returns it.
ReaderScan(t, msg) ==
  /\ Reader(t, "scan")
  /\ PtyHeld(t)
  /\ env.lines > 0
  /\ env' = [env EXCEPT !.lines = @ - 1]
  /\ tasks' = [tasks EXCEPT ![t] = ScanLine(@, msg)]
  /\ UNCHANGED <<runtime, runningTasks, pendingPermissions, sessions, file, claude, hs, chat, crashed>>

\* scanner.Scan returns false: every holder of the PTY slave has gone.
ReaderEOF(t) ==
  /\ Reader(t, "scan")
  /\ ~PtyHeld(t)
  /\ tasks' = [tasks EXCEPT ![t].rpc = "wait"]
  /\ UNCHANGED <<runtime, runningTasks, pendingPermissions, sessions, file, claude, hs, chat, env, crashed>>

\* The error cmd.Wait returns: an ExitError after a nonzero exit or a kill;
\* nil after a zero exit, unless runCtx ended before Wait, when Wait may
\* report the context's error instead.
WaitErrors(t) ==
  IF t.leader = "exit0"
  THEN IF t.ctx = "live" THEN {FALSE} ELSE {FALSE, TRUE}
  ELSE {TRUE}

\* cmd.Wait, the Result and task.done <- result
ReaderResult(t, waitErr) ==
  /\ Reader(t, "wait")
  /\ waitErr \in WaitErrors(tasks[t])
  /\ Len(tasks[t].done) < DoneCap
  /\ tasks' = [tasks EXCEPT
        ![t].done = Append(@, [SessionID |-> tasks[t].sessionID,
                               Error |-> ResultError(waitErr, tasks[t].ctx),
                               nil |-> FALSE]),
        ![t].results = @ + 1,
        ![t].rpc = "closeFifo"]
  /\ UNCHANGED <<runtime, runningTasks, pendingPermissions, sessions, file, claude, hs, chat, env, crashed>>

\* The deferred calls of the worker, last registered first:
\* permFIFO.Close(), ptmx.Close(), close(task.done), close(task.output).
ReaderDefers(t) ==
  /\ crashed = ""
  /\ t \in TaskIds
  /\ tasks[t].rpc \in {"closeFifo", "closePty", "closeDone", "closeOutput"}
  /\ tasks' = [tasks EXCEPT
        ![t].fifoClosed = @ \/ tasks[t].rpc = "closeFifo",
        ![t].ptyClosed = @ \/ tasks[t].rpc = "closePty",
        ![t].doneClosed = @ \/ tasks[t].rpc = "closeDone",
        ![t].outputClosed = @ \/ tasks[t].rpc = "closeOutput",
        ![t].rpc = CASE tasks[t].rpc = "closeFifo" -> "closePty"
                     [] tasks[t].rpc = "closePty" -> "closeDone"
                     [] tasks[t].rpc = "closeDone" -> "closeOutput"
                     [] OTHER -> "end"]
  /\ runtime' = IF tasks[t].rpc = "closeFifo"
                THEN [runtime EXCEPT ![tasks[t].taskPath][tasks[t].suffix] = Close(@)]
                ELSE runtime
  /\ UNCHANGED <<runningTasks, pendingPermissions, sessions, file, claude, hs, chat, env, crashed>>

\* The subprocess exits by itself.
ProcessExit(t, code) ==
  /\ crashed = ""
  /\ t \in TaskIds
  /\ tasks[t].leader = "running"
  /\ tasks' = [tasks EXCEPT ![t].leader = code]
  /\ UNCHANGED <<runtime, runningTasks, pendingPermissions, sessions, file, claude, hs, chat, env, crashed>>

\* The other members of the process group exit by themselves.
GroupExit(t) ==
  /\ crashed = ""
  /\ t \in TaskIds
  /\ tasks[t].group
  /\ tasks' = [tasks EXCEPT ![t].group = FALSE]
  /\ UNCHANGED <<runtime, runningTasks, pendingPermissions, sessions, file, claude, hs, chat, env, crashed>>

\* What the end of runCtx does to the subprocess: exec.CommandContext
\* kills the process it started (os.Process.Kill), and nothing else.
KillOnDone(t) == [t EXCEPT !.leader = IF @ = "running" THEN "killed" ELSE @]

\* runCtx ends: its deadline passes (cause "deadline") or the cancel
\* function RunningTask.Cancel calls is called (cause "canceled").
ContextDone(t, cause) ==
  /\ crashed = ""
  /\ t \in TaskIds
  /\ tasks[t].ctx = "live"
  /\ tasks[t].rpc # "end"
  /\ tasks' = [tasks EXCEPT ![t] = KillOnDone([@ EXCEPT !.ctx = cause])]
  /\ UNCHANGED <<runtime, runningTasks, pendingPermissions, sessions, file, claude, hs, chat, env, crashed>>

\* PermissionFIFO.readRequests: the permission tool writes a request line
\* to the request pipe; the worker decodes it and sends it on p.requests.
FifoRequest(t, req) ==
  /\ crashed = ""
  /\ t \in TaskIds
  /\ PtyHeld(t)
  /\ tasks[t].ctx = "live"
  /\ ~tasks[t].fifoClosed
  /\ tasks[t].held = <<>>
  /\ tasks[t].readRequests # "end"
  /\ Len(tasks[t].requests) < PermissionCap
  /\ env.requests > 0
  /\ env' = [env EXCEPT !.requests = @ - 1]
  /\ tasks' = [tasks EXCEPT ![t].requests = Append(@, req)]
  /\ UNCHANGED <<runtime, runningTasks, pendingPermissions, sessions, file, claude, hs, chat, crashed>>

\* ... and p.requests is full: the select of the send has no default case,
\* so the worker waits at it with the decoded request in hand (held) and
\* reads no further line.
FifoRequestFull(t, req) ==
  /\ crashed = ""
  /\ t \in TaskIds
  /\ PtyHeld(t)
  /\ tasks[t].ctx = "live"
  /\ ~tasks[t].fifoClosed
  /\ tasks[t].held = <<>>
  /\ tasks[t].readRequests # "end"
  /\ Len(tasks[t].requests) = PermissionCap
  /\ env.requests > 0
  /\ env' = [env EXCEPT !.requests = @ - 1]
  /\ tasks' = [tasks EXCEPT ![t].held = <<req>>]
  /\ UNCHANGED <<runtime, runningTasks, pendingPermissions, sessions, file, claude, hs, chat, crashed>>

\* The waiting send goes through once the dispatcher has taken a request.
FifoRequestResume(t) ==
  /\ crashed = ""
  /\ t \in TaskIds
  /\ tasks[t].ctx = "live"
  /\ ~tasks[t].fifoClosed
  /\ tasks[t].held # <<>>
  /\ Len(tasks[t].requests) < PermissionCap
  /\ tasks' = [tasks EXCEPT ![t].requests = Append(@, Head(tasks[t].held)), ![t].held = <<>>]
  /\ UNCHANGED <<runtime, runningTasks, pendingPermissions, sessions, file, claude, hs, chat, env, crashed>>

\* PermissionFIFO.writeResponses: the worker takes a response from
\* p.responses and writes it to the response pipe.
FifoResponse(t) ==
  /\ crashed = ""
  /\ t \in TaskIds
  /\ tasks[t].ctx = "live"
  /\ ~tasks[t].fifoClosed
  /\ tasks[t].responses # <<>>
  /\ tasks[t].writeResponses = "select"
  /\ tasks' = [tasks EXCEPT ![t].responses = Tail(@)]
  /\ UNCHANGED <<runtime, runningTasks, pendingPermissions, sessions, file, claude, hs, chat, env, crashed>>

\* The two workers of PermissionFIFO.Start, step by step.  readRequests is
\* where the reader is: "open" in os.OpenFile of the request pipe, which
\* returns once a writer has the pipe open; "scan" in scanner.Scan; "end"
\* after its return.  writeResponses is where the writer is: "select" at
\* its select, "open" in os.OpenFile of the response pipe with a response
\* in hand, "end".  Canceled(t): the context Start derived from runCtx is
\* done, by Close or because runCtx is.
Canceled(t) == tasks[t].fifoClosed \/ tasks[t].ctx # "live"

PipeAt(t, name) == runtime[tasks[t].taskPath][tasks[t].suffix][name] # 0

\* The permission tool opens the request pipe for writing.
FifoConnect(t) ==
  /\ crashed = ""
  /\ t \in TaskIds
  /\ PtyHeld(t)
  /\ PipeAt(t, FIFORequestName)
  /\ tasks[t].readRequests = "open"
  /\ tasks' = [tasks EXCEPT ![t].readRequests = "scan"]
  /\ UNCHANGED <<runtime, runningTasks, pendingPermissions, sessions, file, claude, hs, chat, env, crashed>>

\* The writer side of the request pipe is closed: Scan returns false, the
\* file is closed, and the loop returns if the context is done and opens
\* the pipe again otherwise.
FifoEOF(t) ==
  /\ crashed = ""
  /\ t \in TaskIds
  /\ tasks[t].readRequests = "scan"
  /\ tasks[t].held = <<>>
  /\ tasks' = [tasks EXCEPT ![t].readRequests = IF Canceled(t) THEN "end" ELSE "open"]
  /\ UNCHANGED <<runtime, runningTasks, pendingPermissions, sessions, file, claude, hs, chat, env, crashed>>

\* The writer takes a response and no reader has the response pipe open:
\* it waits in os.OpenFile.
FifoResponseBlocked(t) ==
  /\ crashed = ""
  /\ t \in TaskIds
  /\ ~Canceled(t)
  /\ tasks[t].responses # <<>>
  /\ tasks[t].writeResponses = "select"
  /\ tasks' = [tasks EXCEPT ![t].responses = Tail(@), ![t].writeResponses = "open"]
  /\ UNCHANGED <<runtime, runningTasks, pendingPermissions, sessions, file, claude, hs, chat, env, crashed>>

\* The permission tool opens the response pipe for reading: the open
\* returns, the response is written and the worker is back at its select.
FifoResponseConnected(t) ==
  /\ crashed = ""
  /\ t \in TaskIds
  /\ PtyHeld(t)
  /\ PipeAt(t, FIFOResponseName)
  /\ tasks[t].writeResponses = "open"
  /\ tasks' = [tasks EXCEPT ![t].writeResponses = "select"]
  /\ UNCHANGED <<runtime, runningTasks, pendingPermissions, sessions, file, claude, hs, chat, env, crashed>>

\* The writer at its select once the context is done: it returns.
FifoWriterDone(t) ==
  /\ crashed = ""
  /\ t \in TaskIds
  /\ Canceled(t)
  /\ tasks[t].writeResponses = "select"
  /\ tasks' = [tasks EXCEPT ![t].writeResponses = "end"]
  /\ UNCHANGED <<runtime, runningTasks, pendingPermissions, sessions, file, claude, hs, chat, env, crashed>>

\* The reader at the send of its select once the context is done: it returns.
FifoReaderDone(t) ==
  /\ crashed = ""
  /\ t \in TaskIds
  /\ Canceled(t)
  /\ tasks[t].held # <<>>
  /\ tasks' = [tasks EXCEPT ![t].readRequests = "end", ![t].held = <<>>]
  /\ UNCHANGED <<runtime, runningTasks, pendingPermissions, sessions, file, claude, hs, chat, env, crashed>>

(***************************************************************************)
(* Specifications.  Each one runs the bot in one environment: the events   *)
(* Slack delivers, what the agent subprocesses do, and the faults.  Its    *)
(* next-state relation is made of the steps that environment can enable.   *)
(***************************************************************************)
StartText == <<"<@BOT>", " ", "Demo", ":", " ", "hello">>

\* The steps of runClod from Runner.Start to its deferred calls, for a task
\* whose agent writes no output.
Dispatch(h) ==
  \/ RouteStart(h, FALSE)
  \/ Store(h)
  \/ LoopOutputClosed(h)
  \/ LoopDone(h)
  \/ WaitDone(h)
  \/ DeferPending(h)
  \/ DeferRunning(h)

Save(h) ==
  \/ SaveSnapshot(h)
  \/ SaveTemp(h)
  \/ SaveRename(h)

\* The reader worker of a task whose subprocess ends by itself.
Worker(t) ==
  \/ ProcessExit(t, "exit0")
  \/ ReaderEOF(t)
  \/ \E waitErr \in BOOLEAN : ReaderResult(t, waitErr)
  \/ ReaderDefers(t)

(***************************************************************************)
(* SpecStream: one task, started by one mention, whose agent streams       *)
(* output and ends by exit, deadline or cancellation, with or without      *)
(* other members of its process group.                                     *)
(***************************************************************************)
StreamLines ==
  { StreamMsg("system", "init", "s1", <<>>, <<>>, <<>>),
    StreamMsg("assistant", "", "", << TextBlock(<<"**", "b", "**">>) >>, <<>>, <<>>),
    StreamMsg("assistant", "", "", << TextBlock(<<"LONGTEXT">>) >>, <<>>, <<>>),
    StreamMsg("assistant", "", "", << TextBlock(<<"a">>), ToolUse("tu1", "Bash") >>, <<>>, <<>>),
    StreamMsg("user", "", "", << ToolResult("tu1", <<"out", "\n">>) >>, <<>>, <<>>),
    StreamMsg("user", "", "", << ToolResult("tu1", <<"LONGOUT">>) >>, <<>>, <<>>),
    StreamMsg("user", "", "",
              << ToolResult("tu1", <<"out">>), ToolResult("tu2", <<"data">>) >>, <<>>, <<>>),
    StreamMsg("result", "success", "", <<>>, <<>>, <<"a">>) }

InitStream == Started({EmptyStore}, {<<>>}, 1, MaxLines, 0)

NextStream ==
  \/ \E h \in HandlerIds : HandleAppMention(h, "U1", "C1:T1", StartText)
  \/ \E h \in HandlerIds :
       \/ RouteStart(h, TRUE)
       \/ Dispatch(h)
       \/ LoopOutput(h)
       \/ LoopTick(h)
       \/ Save(h)
  \/ \E t \in 1..MaxTasks :
       \/ Worker(t)
       \/ \E msg \in StreamLines : ReaderScan(t, msg)
       \/ ProcessExit(t, "exitN")
       \/ GroupExit(t)
       \/ \E cause \in {"deadline", "canceled"} : ContextDone(t, cause)

SpecStream == InitStream /\ [][NextStream]_vars

(***************************************************************************)
(* SpecMrkdwn: one task whose agent writes Markdown texts, which the       *)
(* dispatcher converts and posts.  The texts are those of the repository's *)
(* conversion tests and two of several lines.                              *)
(***************************************************************************)
MarkdownTexts ==
  { <<"This", " ", "is", " ", "**", "bold", "**", " ", "text">>,
    <<"This", " ", "is", " ", "_", "italic", "_", " ", "text">>,
    <<"This", " ", "is", " ", "*", "italic", "*", " ", "text">>,
    <<"##", " ", "Summary">>,
    <<"#", " ", "Title">>,
    <<"This", " ", "is", " ", "~~", "deleted", "~~", " ", "text">>,
    <<"Run", " ", "it">>,
    <<"one", "\n", "\n", "two">>,
    <<"2", " ", "*", " ", "3">> }

MarkdownLines ==
  { StreamMsg("assistant", "", "", << TextBlock(x) >>, <<>>, <<>>) : x \in MarkdownTexts }

InitMrkdwn == Started({EmptyStore}, {<<>>}, 1, MaxLines, 0)

NextMrkdwn ==
  \/ \E h \in HandlerIds : HandleAppMention(h, "U1", "C1:T1", StartText)
  \/ \E h \in HandlerIds :
       \/ Dispatch(h)
       \/ LoopOutput(h)
       \/ LoopTick(h)
  \/ \E t \in 1..MaxTasks :
       \/ Worker(t)
       \/ \E msg \in MarkdownLines : ReaderScan(t, msg)

SpecMrkdwn == InitMrkdwn /\ [][NextMrkdwn]_vars

(***************************************************************************)
(* SpecBackpressure: one task that runs on; its agent writes one line of   *)
(* more text blocks than the output stream holds and asks for more         *)
(* permissions, all allowed by a saved rule, than a permission stream      *)
(* holds, while the dispatcher and the pipe writer are slow.               *)
(***************************************************************************)
BurstBlocks == 26   \* text blocks in one line: four lines overflow the output stream

BurstLine ==
  StreamMsg("assistant", "", "", [i \in 1..BurstBlocks |-> TextBlock(<<"a">>)], <<>>, <<>>)

BurstRequest == [ToolName |-> "WebSearch", ToolInput |-> [query |-> <<"x">>]]

InitBackpressure == Started({EmptyStore}, {<< <<"WebSearch">> >>}, 1, 4, PermissionCap + 1)

NextBackpressure ==
  \/ \E h \in HandlerIds : HandleAppMention(h, "U1", "C1:T1", StartText)
  \/ \E h \in HandlerIds :
       \/ RouteStart(h, FALSE)
       \/ Store(h)
       \/ LoopOutput(h)
       \/ LoopPermissionAllowed(h)
  \/ \E t \in 1..MaxTasks :
       \/ ReaderScan(t, BurstLine)
       \/ FifoRequest(t, BurstRequest)
       \/ FifoRequestFull(t, BurstRequest)
       \/ FifoRequestResume(t)
       \/ FifoResponse(t)

SpecBackpressure == InitBackpressure /\ [][NextBackpressure]_vars

(***************************************************************************)
(* SpecWriters: one task runs, asks for a permission and ends, while its   *)
(* agent writes a file into the task directory and an allowed user sends   *)
(* a thread message: everything that writes to the thread is at work.      *)
(***************************************************************************)
WriterTexts == { <<"yes">>, <<"add", " ", "tests">> }

InitWriters == Started({EmptyStore}, {<<>>}, MaxEvents, 0, 1)

NextWriters ==
  \/ \E h \in HandlerIds :
       /\ tasks = <<>>
       /\ \A g \in HandlerIds : hs[g].kind # "mention"
       /\ HandleAppMention(h, "U1", "C1:T1", StartText)
  \/ \E h \in HandlerIds, x \in WriterTexts : HandleMessage(h, "U1", "C1:T1", x, "", TRUE, "none")
  \/ \E h \in HandlerIds :
       \/ RouteStop(h)
       \/ Dispatch(h)
       \/ MessagePending(h)
       \/ DeletePending(h)
       \/ LoopPermissionPrompt(h)
       \/ WatchOutputs(h, "out.txt")
  \/ \E t \in 1..MaxTasks :
       \/ Worker(t)
       \/ FifoRequest(t, [ToolName |-> "Bash",
                          ToolInput |-> [command |-> <<"python", " ", "build.py">>]])
       \/ FifoResponse(t)

SpecWriters == InitWriters /\ [][NextWriters]_vars

(***************************************************************************)
(* SpecPending: two mentions in one thread, handled concurrently; the      *)
(* tasks they start ask for a permission no rule allows and end by         *)
(* themselves.                                                             *)
(***************************************************************************)
InitPending == Started({EmptyStore}, {<<>>}, MaxEvents, 0, 1)

NextPending ==
  \/ \E h \in HandlerIds : HandleAppMention(h, "U1", "C1:T1", StartText)
  \/ \E h \in HandlerIds :
       \/ Dispatch(h)
       \/ LoopPermissionPrompt(h)
  \/ \E t \in 1..MaxTasks :
       \/ Worker(t)
       \/ FifoRequest(t, BurstRequest)

SpecPending == InitPending /\ [][NextPending]_vars

(***************************************************************************)
(* SpecMarkers: one task whose agent writes texts that begin with the      *)
(* markers of the reader, beside a result message and a tool result, and   *)
(* ends by itself.                                                         *)
(***************************************************************************)
MarkerLines ==
  { StreamMsg("assistant", "", "", << TextBlock(<<"__STATS__", " ", "are", " ", "sent">>) >>, <<>>, <<>>),
    StreamMsg("assistant", "", "", << TextBlock(<<"a">>) >>, <<>>, <<>>),
    StreamMsg("content_block_delta", "", "", <<>>, <<"__SNIPPET__", "x">>, <<>>),
    StreamMsg("assistant", "", "", << ToolUse("tu2", "Bash") >>, <<>>, <<>>),
    StreamMsg("user", "", "", << ToolResult("tu2", <<"__STATS__", "x">>) >>, <<>>, <<>>),
    StreamMsg("user", "", "", << ToolResult("tu1", <<"LONGOUT">>) >>, <<>>, <<>>),
    StreamMsg("result", "success", "", <<>>, <<>>, <<"a">>) }

InitMarkers == Started({EmptyStore}, {<<>>}, 1, MaxLines, 0)

NextMarkers ==
  \/ \E h \in HandlerIds : HandleAppMention(h, "U1", "C1:T1", StartText)
  \/ \E h \in HandlerIds :
       \/ Dispatch(h)
       \/ LoopOutput(h)
       \/ LoopTick(h)
  \/ \E t \in 1..MaxTasks :
       \/ Worker(t)
       \/ \E msg \in MarkerLines : ReaderScan(t, msg)

SpecMarkers == InitMarkers /\ [][NextMarkers]_vars

(***************************************************************************)
(* SpecSave: tasks that end with a session id, so that runClod saves the   *)
(* session store, while steps of Save fail and the bot may be killed at    *)
(* any point.                                                              *)
(***************************************************************************)
(* SpecClose: one task whose agent asks once for a tool the rules allow    *)
(* and ends by itself, with the two workers of its permission channel.     *)
(* Every step that stays enabled is taken in the end: the Go scheduler     *)
(* runs every goroutine that can run.                                      *)
(***************************************************************************)
InitClose == Started({EmptyStore}, {<< <<"WebSearch">> >>}, 1, 0, 1)

NextClose ==
  \/ \E h \in HandlerIds : HandleAppMention(h, "U1", "C1:T1", StartText)
  \/ \E h \in HandlerIds :
       \/ Dispatch(h)
       \/ LoopPermissionAllowed(h)
  \/ \E t \in 1..MaxTasks :
       \/ Worker(t)
       \/ FifoRequest(t, BurstRequest)
       \/ FifoConnect(t)
       \/ FifoEOF(t)
       \/ FifoResponse(t)
       \/ FifoResponseBlocked(t)
       \/ FifoResponseConnected(t)
       \/ FifoWriterDone(t)

SpecClose == InitClose /\ [][NextClose]_vars /\ WF_vars(NextClose)

(***************************************************************************)
(* SpecRuntime: tasks started from mentions in two threads for the same    *)
(* task directory, with every draw of the runtime suffix and with or       *)
(* without an agent prompt, each ending by itself.                         *)
(***************************************************************************)
InitRuntime == Started({EmptyStore}, {<<>>}, MaxTasks, 0, 0)

NextRuntime ==
  \/ \E h \in HandlerIds, th \in Threads : HandleAppMention(h, "U1", th, StartText)
  \/ \E h \in HandlerIds, sfx \in Suffixes, prompt \in BOOLEAN :
       RouteStartWith(h, FALSE, sfx, prompt)
  \/ \E h \in HandlerIds :
       \/ Store(h)
       \/ LoopOutputClosed(h)
       \/ LoopDone(h)
       \/ WaitDone(h)
       \/ DeferPending(h)
       \/ DeferRunning(h)
  \/ \E t \in 1..MaxTasks : Worker(t)

SpecRuntime == InitRuntime /\ [][NextRuntime]_vars

(***************************************************************************)
(* SpecStartFails: mentions in two threads for the same task directory;    *)
(* each Runner.Start succeeds or fails at one of its steps, with every     *)
(* draw of the runtime suffix; the tasks started end by themselves.        *)
(***************************************************************************)
InitStartFails == Started({EmptyStore}, {<<>>}, MaxEvents, 0, 0)

NextStartFails ==
  \/ \E h \in HandlerIds, th \in Threads : HandleAppMention(h, "U1", th, StartText)
  \/ \E h \in HandlerIds, sfx \in Suffixes :
       \/ RouteStartWith(h, FALSE, sfx, TRUE)
       \/ \E step \in FailSteps, prompt \in BOOLEAN : RouteStartFailsAt(h, step, sfx, prompt)
  \/ \E h \in HandlerIds :
       \/ Store(h)
       \/ LoopOutputClosed(h)
       \/ LoopDone(h)
       \/ WaitDone(h)
       \/ DeferPending(h)
       \/ DeferRunning(h)
  \/ \E t \in 1..MaxTasks : Worker(t)

SpecStartFails == InitStartFails /\ [][NextStartFails]_vars

(***************************************************************************)
(* SpecWatch: one task, started by one mention, that ends by itself,       *)
(* with the watcher of its task directory, the writes other processes      *)
(* make to the files there, and the clock, read here from the start of the *)
(* watcher and between its scans.                                          *)
(***************************************************************************)
InitWatch == StartedAll({<<"U1">>}, {EmptyStore}, {ConfigWith(<<>>)}, 1, 0, 0, MaxWrites)

NextWatch ==
  \/ \E h \in HandlerIds : HandleAppMention(h, "U1", "C1:T1", StartText)
  \/ \E h \in HandlerIds : Dispatch(h)
  \/ \E t \in 1..MaxTasks :
       \/ Worker(t)
       \/ WatchStart(t)
       \/ \E final \in BOOLEAN : WatchScan(t, final)
       \/ \E n \in OutputNames : WatchCheck(t, n)
       \/ WatchSettle(t)
       \/ WatchUpload(t)
       \/ WatchUploadFails(t)
       \/ WatchReturn(t)
  \/ \E n \in OutputNames, grow \in BOOLEAN : FileWrite(n, grow)
  \/ \E t \in 1..MaxTasks : t \in TaskIds /\ tasks[t].watch.pc = "idle" /\ ClockTick

SpecWatch == InitWatch /\ [][NextWatch]_vars

(***************************************************************************)
InitSave == Started({[EmptyStore EXCEPT !["C1:T2"] = OldSession]}, {<<>>}, MaxTasks, 1, 0)

NextSave ==
  \/ \E h \in HandlerIds, th \in Threads : HandleAppMention(h, "U1", th, StartText)
  \/ \E h \in HandlerIds :
       \/ Dispatch(h)
       \/ Save(h)
       \/ SaveFails(h)
  \/ \E t \in 1..MaxTasks :
       \/ Worker(t)
       \/ ReaderScan(t, StreamMsg("system", "init", "s1", <<>>, <<>>, <<>>))
  \/ Crash

SpecSave == InitSave /\ [][NextSave]_vars

(***************************************************************************)
(* SpecSaves: two tasks in two threads end with a session id at about the  *)
(* same time, and each runClod saves the session store; no step of a Save  *)
(* fails and the bot keeps running.                                        *)
(***************************************************************************)
NextSaves ==
  \/ \E h \in HandlerIds, th \in Threads : HandleAppMention(h, "U1", th, StartText)
  \/ \E h \in HandlerIds :
       \/ Dispatch(h)
       \/ Save(h)
  \/ \E t \in 1..MaxTasks :
       \/ Worker(t)
       \/ ReaderScan(t, StreamMsg("system", "init", "s1", <<>>, <<>>, <<>>))

SpecSaves == InitSave /\ [][NextSaves]_vars

(***************************************************************************)
(* Spec: mentions and thread messages of allowed and other users arrive    *)
(* in any order and are handled concurrently; the tasks they start end by  *)
(* themselves.                                                             *)
(***************************************************************************)
Init == Started({EmptyStore}, {<<>>}, MaxEvents, 0, 0)

Next ==
  \/ \E h \in HandlerIds, u \in Users, th \in Threads, x \in MentionTexts :
       HandleAppMention(h, u, th, x)
  \/ \E h \in HandlerIds, u \in Users, th \in Threads, x \in MessageTexts :
       HandleMessage(h, u, th, x, "", TRUE, "none")
  \/ \E h \in HandlerIds :
       \/ RouteStop(h)
       \/ RouteStartFails(h)
       \/ Dispatch(h)
       \/ MessagePending(h)
  \/ \E t \in 1..MaxTasks : Worker(t)

Spec == Init /\ [][Next]_vars

(***************************************************************************)
(* SpecPermission: one task asks for permissions while users answer by     *)
(* button and by text, and the task may end at any point.                  *)
(***************************************************************************)
AskedFor ==
  { [ToolName |-> "Bash", ToolInput |-> [command |-> <<"python", " ", "build.py">>]],
    [ToolName |-> "WebSearch", ToolInput |-> [query |-> <<"x">>]] }

InitPermission ==
  Started({EmptyStore}, {<< <<"WebSearch">> >>}, MaxEvents, 0, MaxRequests)

\* One mention by an allowed user starts the task; then text replies and
\* button clicks of any user arrive.
NextPermission ==
  \/ \E h \in HandlerIds :
       /\ tasks = <<>>
       /\ \A g \in HandlerIds : hs[g].kind # "mention"
       /\ HandleAppMention(h, "U1", "C1:T1", StartText)
  \/ \E h \in HandlerIds, u \in Users, x \in {<<"Yes">>, <<"no", " ">>, <<"add", " ", "tests">>} :
       HandleMessage(h, u, "C1:T1", x, "", TRUE, "none")
  \/ \E h \in HandlerIds, u \in Users, ts \in 1..Len(chat["C1:T1"]), a \in ActionIDs :
       HandleBlockAction(h, u, "C1:T1", ts, a)
  \/ \E h \in HandlerIds :
       \/ RouteStop(h)
       \/ Dispatch(h)
       \/ MessagePending(h)
       \/ ClickPending(h)
       \/ ClickSave(h)
       \/ DeletePending(h)
       \/ LoopPermissionAllowed(h)
       \/ LoopPermissionPrompt(h)
       \/ LoopPermissionPostFails(h)
  \/ \E t \in 1..MaxTasks :
       \/ Worker(t)
       \/ \E req \in AskedFor : FifoRequest(t, req)
       \/ FifoResponse(t)

SpecPermission == InitPermission /\ [][NextPermission]_vars

(***************************************************************************)
(* SpecDecisions: the same, with one permission request and one decision   *)
(* more than the prompt needs.                                             *)
(***************************************************************************)
InitDecisions == Started({EmptyStore}, {<< <<"WebSearch">> >>}, MaxEvents + 1, 0, 1)

SpecDecisions == InitDecisions /\ [][NextPermission]_vars

(***************************************************************************)
(* SpecShutdown: tasks are started and end by themselves while the bot     *)
(* process is sent signals.  The timer of the graceful shutdown fires when *)
(* nothing ends the wait before.                                           *)
(***************************************************************************)
InitShutdown == Started({EmptyStore}, {<<>>}, MaxEvents, 0, 0)

NextShutdown ==
  \/ \E h \in HandlerIds, th \in Threads : HandleAppMention(h, "U1", th, StartText)
  \/ \E h \in HandlerIds : Dispatch(h)
  \/ \E t \in 1..MaxTasks : Worker(t)
  \/ Signal
  \/ SignalAgain
  \/ ShutdownTTL
  \/ RunError

SpecShutdown == InitShutdown /\ [][NextShutdown]_vars /\ WF_vars(ShutdownTTL)

(***************************************************************************)
(* SpecAuth: the bot is started with any allowlist, the empty one too, and *)
(* mentions and thread messages of every user arrive, in a thread with a   *)
(* saved session and in one without.                                       *)
(***************************************************************************)
AllowLists == {<<>>, <<"U1">>, <<"U2">>, <<"U1", "U2">>, <<"U2", "U2">>}

InitAuth ==
  StartedFor(AllowLists, {[EmptyStore EXCEPT !["C1:T2"] = OldSession]}, {ConfigWith(<<>>)},
             MaxEvents, 0, 0)

NextAuth ==
  \/ \E h \in HandlerIds, u \in Users, th \in Threads, x \in MentionTexts :
       HandleAppMention(h, u, th, x)
  \/ \E h \in HandlerIds, u \in Users, th \in Threads :
       HandleMessage(h, u, th, <<"add", " ", "tests">>, "", TRUE, "none")
  \/ \E h \in HandlerIds :
       \/ RouteStop(h)
       \/ RouteStart(h, FALSE)
       \/ Store(h)
       \/ MessagePending(h)

SpecAuth == InitAuth /\ [][NextAuth]_vars

(***************************************************************************)
(* SpecReplies: mentions and plain messages of every kind of text arrive   *)
(* in one thread, which has a saved session or none, while the task that   *)
(* runs in it asks for a permission.                                       *)
(***************************************************************************)
ReplyMentions ==
  { StartText,
    <<"<@BOT>", " ", "more">>,
    <<"<@BOT>", " ", "fix", "\n", "this">>,
    <<"<@BOT>", " ">>,
    <<"<@BOT>">> }

ReplyTexts ==
  { <<"Yes">>,
    <<" ", "No", "\n">>,
    <<"yes", " ", "please">>,
    <<"sure">>,
    <<"add", " ", "tests">>,
    <<>> }

InitReplies ==
  Started({EmptyStore, [EmptyStore EXCEPT !["C1:T1"] = OldSession]}, {<<>>}, MaxEvents, 0, 1)

NextReplies ==
  \/ \E h \in HandlerIds, u \in Users, x \in ReplyMentions :
       HandleAppMention(h, u, "C1:T1", x)
  \/ \E h \in HandlerIds, u \in Users, x \in ReplyTexts, f \in Files :
       HandleMessage(h, u, "C1:T1", x, "", TRUE, f)
  \/ \E h \in HandlerIds :
       \/ RouteStop(h)
       \/ RouteStart(h, FALSE)
       \/ Store(h)
       \/ MessagePending(h)
       \/ DeletePending(h)
       \/ LoopPermissionPrompt(h)
  \/ \E t \in 1..MaxTasks :
       \/ FifoRequest(t, [ToolName |-> "Bash",
                          ToolInput |-> [command |-> <<"python", " ", "build.py">>]])
       \/ FifoResponse(t)

SpecReplies == InitReplies /\ [][NextReplies]_vars

(***************************************************************************)
(* SpecRules: one task runs on and asks for permissions of every kind of   *)
(* tool, over configuration documents of every shape, while an allowed     *)
(* user answers the prompts with the two buttons that save a rule.         *)
(***************************************************************************)
RuleRequests ==
  { [ToolName |-> "Bash", ToolInput |-> [command |-> <<"python", " ", "build.py">>]],
    [ToolName |-> "Bash", ToolInput |-> [command |-> <<" ", "python", "\t", "test.py">>]],
    [ToolName |-> "Bash", ToolInput |-> [command |-> <<"make">>]],
    [ToolName |-> "Bash", ToolInput |-> [file_path |-> <<"python", "/", "f.go">>]],
    [ToolName |-> "Write", ToolInput |-> [file_path |-> <<"/", "a", "/", "src", "/", "f.go">>]],
    [ToolName |-> "Write", ToolInput |-> [file_path |-> <<"src", "/", "g.go">>]],
    [ToolName |-> "Read", ToolInput |-> [file_path |-> <<"/", "b", "/", "src", "/", "h.go">>]],
    [ToolName |-> "Edit", ToolInput |-> [file_path |-> <<"/", "a", "/", "lib", "/", "f.go">>]],
    [ToolName |-> "Edit", ToolInput |-> [command |-> <<"lib">>]],
    [ToolName |-> "WebFetch",
     ToolInput |-> [url |-> <<"https", "://", "example.com", "/", "api">>]],
    [ToolName |-> "WebFetch",
     ToolInput |-> [url |-> <<"https", "://", "example.com", "/", "docs">>]],
    [ToolName |-> "WebSearch", ToolInput |-> [query |-> <<"x">>]] }

SavedRules ==
  { <<"Bash">>,
    <<"Bash", "(", "python", ":", "*", ")">>,
    <<"Bash", "(", "python", "/", "*", "*", ")">>,
    <<"Write", "(", "src", ":", "*", ")">>,
    <<"Write", "(", "src", "/", "*", "*", ")">>,
    <<"Write", "(", "src", ")">>,
    <<"Edit", "(", "lib", ":", "*", ")">>,
    <<"Read", "(", "*", "*", ")">>,
    <<"WebFetch", "(", "https", "://", "example.com", ":", "*", ")">> }

InitRules ==
  StartedWith({EmptyStore},
              Configs({<<>>, << <<"Bash", "(", "python", ":", "*", ")">> >>})
                \cup {ConfigWith(<<r>>) : r \in SavedRules}
                \cup {ConfigWith(<< <<"WebSearch">>, <<"Bash">>, <<"WebSearch">> >>)},
              MaxEvents, 0, MaxRequests)

NextRules ==
  \/ \E h \in HandlerIds :
       /\ tasks = <<>>
       /\ \A g \in HandlerIds : hs[g].kind # "mention"
       /\ HandleAppMention(h, "U1", "C1:T1", StartText)
  \/ \E h \in HandlerIds, ts \in 1..Len(chat["C1:T1"]),
          a \in {"permission_allow_always", "permission_allow_similar"} :
       HandleBlockAction(h, "U1", "C1:T1", ts, a)
  \/ \E h \in HandlerIds :
       \/ RouteStart(h, FALSE)
       \/ Store(h)
       \/ ClickPending(h)
       \/ ClickSave(h)
       \/ DeletePending(h)
       \/ LoopPermissionAllowed(h)
       \/ LoopPermissionPrompt(h)
  \/ \E t \in 1..MaxTasks :
       \/ \E req \in RuleRequests : FifoRequest(t, req)
       \/ FifoResponse(t)

SpecRules == InitRules /\ [][NextRules]_vars

(***************************************************************************)
(* Properties of the terminal result and of the output stream, checked     *)
(* under SpecStream.                                                       *)
(***************************************************************************)
FinalCount(t) ==
  LET c == chat[tasks[t].thread]
  IN Cardinality({i \in 1..Len(c) : c[i].kind = "final" /\ c[i].task = t})

DispatcherOf(t) == {h \in HandlerIds : Dispatching(h) /\ hs[h].task = t}

C6_GroupSignalled ==
  \A t \in TaskIds :
    (tasks[t].ctx # "live" /\ tasks[t].leader = "killed") => ~tasks[t].group

\* The error the cause of a task's termination calls for.
CauseError(t) ==
  CASE t.leader = "killed" -> (IF t.ctx = "deadline" THEN "timeout" ELSE "cancelled")
    [] t.leader = "exitN" -> "exit"
    [] OTHER -> ""

\* C7: the error of the terminal Result is the one its cause of termination
\* calls for: Timeout when the deadline killed the subprocess, Cancelled
\* when cancellation did, the underlying error after another nonzero exit,
\* none after a zero exit.
C7_ErrorByCause ==
  [][\A t \in TaskIds :
       tasks'[t].results = tasks[t].results + 1 =>
         tasks'[t].done[Len(tasks'[t].done)].Error = CauseError(tasks[t])]_vars

\* The dispatcher h receives an item from task.Output() in this step.
Received(h) ==
  /\ Dispatching(h)
  /\ hs[h].pc = "loop"
  /\ tasks[hs[h].task].output # <<>>
  /\ tasks'[hs[h].task].output = Tail(tasks[hs[h].task].output)

\* The item was posted as message m, after the text held in the buffer
\* went out in an earlier message of its own; the buffer is empty.
PostedAfterFlush(h, m) ==
  LET b == TrimSpace(hs[h].buf)
      c == chat[hs[h].thread]
      d == chat'[hs[h].thread]
  IN /\ hs'[h].buf = <<>>
     /\ \A th \in Threads \ {hs[h].thread} : chat'[th] = chat[th]
     /\ IF b = <<>>
        THEN d = Append(c, m)
        ELSE /\ Len(d) = Len(c) + 2
             /\ SubSeq(d, 1, Len(c)) = c
             /\ d[Len(c) + 1] =
                  Msg(hs[h].thread, "text", ConvertMarkdownToMrkdwn(b), hs[h].task)
             /\ d[Len(c) + 2] = m

\* A short Bash result, as the worker sends it: a fenced code block.
IsInline(c) == HasPrefix(c, <<"\n", "FENCE", "\n">>)

LiveTasks(th) == {t \in TaskIds : tasks[t].thread = th /\ tasks[t].leader = "running"}

\* C1: at every instant at most one started and not yet terminated agent
\* subprocess exists per (channel, thread) key, however the handlers of
\* concurrent events for one thread interleave.
C1_OneLiveTaskPerThread == \A th \in Threads : Cardinality(LiveTasks(th)) <= 1

(***************************************************************************)
(* Properties of authorization and of permissions, checked under           *)
(* SpecPermission and SpecDecisions.                                       *)
(***************************************************************************)
\* C2: no event of a user outside the allowlist has an effect on a task:
\* every follow-up input written to a task, every permission response sent
\* to a task and every answered prompt comes from an allowed user (or, for
\* a response, from the dispatcher itself).
C2_OnlyAllowedUsersAct ==
  /\ \A t \in TaskIds :
       /\ \A i \in 1..Len(tasks[t].written) : tasks[t].written[i].by \in allowed
       /\ \A i \in 1..Len(tasks[t].sent) : tasks[t].sent[i].by \in allowed \cup {""}
  /\ \A th \in Threads : \A i \in 1..Len(chat[th]) :
       chat[th][i].kind = "answered" => chat[th][i].by \in allowed

\* C3: for every prompt posted to chat at most one permission response is
\* delivered to the task, whatever clicks and text replies arrive and
\* however their handlers interleave.
C3_OneResponsePerPrompt ==
  \A t \in TaskIds : \A p \in 1..Len(chat[tasks[t].thread]) :
    Cardinality({i \in 1..Len(tasks[t].sent) : tasks[t].sent[i].prompt = p}) <= 1

\* The dispatcher takes the head of the task's permission requests in this step.
Dequeues(t) ==
  /\ tasks[t].requests # <<>>
  /\ tasks'[t].requests = Tail(tasks[t].requests)

\* C4: when the dispatcher takes a permission request that some rule now
\* saved for the task directory matches, nothing is posted to chat, no
\* pending permission is recorded, and the one response sent to the task
\* is {behavior: allow} with no message (nothing can be sent once the
\* ended task has closed the channel).
C4_SavedRuleAllows ==
  [][\A t \in TaskIds :
       LET req == Head(tasks[t].requests)
           rules == AllowedTools(claude[tasks[t].taskPath])
       IN (/\ Dequeues(t)
           /\ \E i \in 1..Len(rules) : matchesPermissionRule(rules[i], req.ToolName, req.ToolInput))
          => /\ chat' = chat
             /\ pendingPermissions' = pendingPermissions
             /\ tasks'[t].sent =
                  IF tasks[t].fifoClosed THEN tasks[t].sent
                  ELSE Append(tasks[t].sent,
                              [Behavior |-> "allow", Message |-> "", prompt |-> 0, by |-> "",
                               tool |-> req.ToolName])]_vars

\* A Bash request was prompted for and allowed with a rule, the rule was
\* saved, and the next Bash request of the same task was allowed unasked.
C4_Witness ==
  \E t \in TaskIds :
    /\ Len(tasks[t].sent) = 2
    /\ tasks[t].sent[1].prompt > 0 /\ tasks[t].sent[1].tool = "Bash"
    /\ tasks[t].sent[2] = [Behavior |-> "allow", Message |-> "", prompt |-> 0, by |-> "",
                           tool |-> "Bash"]
    /\ Len(AllowedTools(claude[tasks[t].taskPath])) = 2
    /\ pendingPermissions[tasks[t].thread] = NoPending

(***************************************************************************)
(* Properties of the session store, checked under SpecSave.                *)
(***************************************************************************)
\* The dispatcher h takes the terminal result in this step.
TakesResult(h) == Dispatching(h) /\ hs[h].result.nil /\ ~hs'[h].result.nil

\* C8: a dispatcher that takes a terminal result with a session id sets
\* exactly the mapping of its own thread, to the task name, task directory,
\* session id and user of its run, leaves every other mapping as it is and
\* goes on to save the store; with no session id it changes no mapping and
\* does not save; and nothing else changes the mappings or the store file.
C8_SessionOnResult ==
  [][/\ \A h \in HandlerIds :
          TakesResult(h) =>
            IF hs'[h].result.SessionID # ""
            THEN /\ sessions'[hs[h].thread] =
                      [TaskName |-> hs[h].args.taskName, TaskPath |-> hs[h].args.taskPath,
                       SessionID |-> hs'[h].result.SessionID, UserID |-> hs[h].user,
                       CreatedAt |-> 1]
                 /\ \A th \in Threads \ {hs[h].thread} : sessions'[th] = sessions[th]
                 /\ hs'[h].pc = "save"
            ELSE /\ sessions' = sessions
                 /\ hs'[h].pc = "defer"
     /\ sessions' # sessions => \E h \in HandlerIds : TakesResult(h)
     /\ file' # file =>
          \E h \in HandlerIds : hs[h].pc = "rename" /\ hs[h].result.SessionID # ""]_vars

\* A new task of thread T1 ended with the session id its agent announced;
\* its mapping is set, the mapping of thread T2 is the one loaded.
C8_Witness ==
  \E h \in HandlerIds :
    /\ Dispatching(h)
    /\ hs[h].pc = "save"
    /\ hs[h].thread = "C1:T1"
    /\ hs[h].result.SessionID = "s1"
    /\ sessions["C1:T1"].SessionID = "s1"
    /\ sessions["C1:T2"] = OldSession

\* C9: the store file always holds a complete serialization; it changes
\* only in the rename step of a Save, to the complete new serialization of
\* that Save, which then returns no error; so a crash between any two
\* steps and a failing step leave the previous complete content.
C9_SaveAtomic ==
  /\ [](file.kind = "array")
  /\ [][/\ file' # file =>
             \E h \in HandlerIds :
               /\ hs[h].pc = "rename"
               /\ hs[h].data.kind = "array"
               /\ file' = hs[h].data
               /\ ~hs'[h].saveErr
        /\ \A h \in HandlerIds : (hs'[h].saveErr /\ ~hs[h].saveErr) => file' = file]_vars

\* The bot was killed in the middle of a Save, after the temp file was
\* written: the store file holds the complete content of before.
C9_Witness ==
  /\ crashed = "kill"
  /\ \E h \in HandlerIds :
       /\ hs[h].pc \in {"close", "rename"}
       /\ hs[h].tmp \in {"written", "closed"}
       /\ hs[h].data # file
       /\ file.kind = "array"

(***************************************************************************)
(* Properties of the saved rules, checked under SpecRules.                 *)
(***************************************************************************)
\* The handler h ends Bot.savePermissionRule in this step: the file is
\* written, or left alone for a rule that was in the document read.
Persists(h) == At(h, "saveWrite") /\ hs[h].kind = "click" /\ hs'[h].pc = "delete"

\* The number a JSON number text denotes, as its shortest text.
NumberValue(n) == IF n = "1.0" THEN "1" ELSE n

\* What the document holds outside projects[taskPath].allowedTools.
OtherKeys(config) ==
  <<NumberValue(config.extra), NumberValue(config.sibling), NumberValue(config.project.extra)>>

\* C11: persisting rule r for a task directory appends r to
\* projects[dir].allowedTools when r is not in that list and leaves the
\* document as it is when r is in it; the rules that were there keep their
\* places, and every other key of the document keeps its value.
C11_RuleAppendedOnce ==
  [][\A h \in HandlerIds :
       Persists(h) =>
         LET d == tasks[hs[h].task].taskPath
             r == hs[h].click.r
             was == AllowedTools(claude[d])
         IN /\ IF \E i \in 1..Len(was) : was[i] = r
               THEN claude'[d] = claude[d]
               ELSE AllowedTools(claude'[d]) = Append(was, r)
            /\ OtherKeys(claude'[d]) = OtherKeys(claude[d])]_vars

\* The same without the other keys: rule r is appended exactly when it is
\* not in the list, and the rules that were there keep their places.
C11_RulesKept ==
  [][\A h \in HandlerIds :
       Persists(h) =>
         LET d == tasks[hs[h].task].taskPath
             r == hs[h].click.r
             was == AllowedTools(claude[d])
         IN IF \E i \in 1..Len(was) : was[i] = r
            THEN claude'[d] = claude[d]
            ELSE AllowedTools(claude'[d]) = Append(was, r)]_vars

\* The first whitespace-separated word of a text, <<>> when it has none.
RECURSIVE WordAt(_)
WordAt(s) == IF s = <<>> \/ Head(s) \in Blank THEN <<>> ELSE <<Head(s)>> \o WordAt(Tail(s))

FirstWord(s) == WordAt(TrimLeft(s))

\* The cases in which a rule is said to match a request.
SaidToMatch(rule, tool, input) ==
  \/ rule = <<tool>>
  \/ /\ Len(rule) >= 3
     /\ rule[1] = tool /\ rule[2] = "(" /\ rule[Len(rule)] = ")"
     /\ LET pattern == SubSeq(rule, 3, Len(rule) - 1)
            n == Len(pattern)
            cut == SubSeq(pattern, 1, n - 2)
        IN \/ /\ n >= 2 /\ pattern[n - 1] = ":" /\ pattern[n] = "*"
              /\ \/ /\ tool = "Bash"
                    /\ "command" \in DOMAIN input
                    /\ FirstWord(input["command"]) # <<>>
                    /\ FirstWord(input["command"]) = cut
                 \/ /\ tool \in {"Write", "Edit", "Read"}
                    /\ "file_path" \in DOMAIN input
                    /\ \/ Contains(input["file_path"], <<"/">> \o cut \o <<"/">>)
                       \/ HasPrefix(input["file_path"], cut \o <<"/">>)
           \/ /\ n >= 2 /\ pattern[n - 1] = "*" /\ pattern[n] = "*"
              /\ tool \in {"Write", "Edit", "Read"}
              /\ "file_path" \in DOMAIN input
              /\ \/ Contains(input["file_path"], <<"/">> \o cut)
                 \/ HasPrefix(input["file_path"], cut)

ParentName(path) == Base(Dir(path))

\* Scheme and host of a URL: what comes before the first "/" behind "://".
RECURSIVE UpToSlash(_)
UpToSlash(u) == IF u = <<>> \/ Head(u) = "/" THEN <<>> ELSE <<Head(u)>> \o UpToSlash(Tail(u))

\* Two requests are similar: same tool, and the same first command word
\* (Bash), the same parent directory name (Write, Edit, Read), the same
\* scheme and host (WebFetch).
Similar(q1, q2) ==
  /\ q1.ToolName = q2.ToolName
  /\ DOMAIN q1.ToolInput = DOMAIN q2.ToolInput
  /\ CASE q1.ToolName = "Bash" ->
            /\ "command" \in DOMAIN q1.ToolInput
            /\ FirstWord(q1.ToolInput["command"]) = FirstWord(q2.ToolInput["command"])
        [] q1.ToolName \in {"Write", "Edit", "Read"} ->
            /\ "file_path" \in DOMAIN q1.ToolInput
            /\ ParentName(q1.ToolInput["file_path"]) = ParentName(q2.ToolInput["file_path"])
        [] q1.ToolName = "WebFetch" ->
            /\ "url" \in DOMAIN q1.ToolInput
            /\ UpToSlash(q1.ToolInput["url"]) = UpToSlash(q2.ToolInput["url"])
        [] OTHER -> FALSE

\* The handler h saves the rule of an 'Allow Similar' click in this step.
PersistsSimilar(h) == Persists(h) /\ hs[h].click.actionID = "permission_allow_similar"

\* C13: for every tool that has an 'Allow Similar' rule (Bash, Write, Edit,
\* Read, WebFetch), the rule an 'Allow Similar' click persists matches the
\* request it was clicked for and every similar request, so that such a
\* request is allowed without a prompt.
C13_SimilarRuleMatches ==
  [][\A h \in HandlerIds :
       PersistsSimilar(h) =>
         LET m == chat[hs[h].thread][hs[h].click.msg]
             q == [ToolName |-> m.tool, ToolInput |-> m.input]
             rules == AllowedTools(claude'[tasks[hs[h].task].taskPath])
         IN \A q2 \in RuleRequests :
              (q2 = q \/ Similar(q, q2)) =>
                isPermissionAllowed(rules, q2.ToolName, q2.ToolInput)]_vars

\* The same for the prompts of the tools Bash, Write, Edit and Read only.
C13_SimilarRuleMatchesFiles ==
  [][\A h \in HandlerIds :
       (PersistsSimilar(h) /\ chat[hs[h].thread][hs[h].click.msg].tool # "WebFetch") =>
         LET m == chat[hs[h].thread][hs[h].click.msg]
             q == [ToolName |-> m.tool, ToolInput |-> m.input]
             rules == AllowedTools(claude'[tasks[hs[h].task].taskPath])
         IN \A q2 \in RuleRequests :
              (q2 = q \/ Similar(q, q2)) =>
                isPermissionAllowed(rules, q2.ToolName, q2.ToolInput)]_vars

(***************************************************************************)
(* Properties of the replies in a thread, checked under SpecReplies.       *)
(***************************************************************************)
\* The handler h of a plain thread message looks up the pending permission
\* of its thread in this step and finds one; the task's permission channel
\* is open.
AnswersPending(h) ==
  /\ At(h, "pending") /\ hs[h].kind = "message" /\ hs'[h] # hs[h]
  /\ pendingPermissions[hs[h].thread] # NoPending
  /\ ~tasks[hs[h].task].fifoClosed

\* The text trimmed and lowercased, when that is one word.
Word(text) == IF Len(TrimSpace(text)) = 1 THEN LowerTok(TrimSpace(text)[1]) ELSE ""

Affirmative == {"yes", "y", "allow", "ok", "approve", "approved", "accept", "yep", "yeah", "sure"}

Negative == {"no", "n", "deny", "denied", "reject", "rejected", "nope", "nah"}

\* C14: while a pending permission exists for a thread with a running task,
\* a plain thread message yields allow only if its trimmed, lowercased text
\* is one of the ten affirmative words and deny only if it is one of the
\* eight negative words; then that one response is sent and the pending
\* permission is cleared; otherwise no response is sent, the pending
\* permission stays and a reminder is posted; in no case is the text
\* forwarded to the task as input.
C14_TextDecision ==
  [][\A h \in HandlerIds :
       /\ AnswersPending(h) =>
            LET t == hs[h].task
                th == hs[h].thread
                w == Word(hs[h].text)
                said == IF w \in Affirmative THEN "allow" ELSE IF w \in Negative THEN "deny" ELSE ""
            IN /\ tasks'[t].written = tasks[t].written
               /\ pendingPermissions' = pendingPermissions
               /\ IF said # ""
                  THEN /\ Len(tasks'[t].sent) = Len(tasks[t].sent) + 1
                       /\ tasks'[t].sent[Len(tasks'[t].sent)].Behavior = said
                       /\ tasks'[t].responses = Append(tasks[t].responses, hs'[h].resp)
                       /\ hs'[h].resp.Behavior = said
                       /\ hs'[h].pc = "delete"
                       /\ chat' = chat
                  ELSE /\ tasks' = tasks
                       /\ hs'[h] = Idle
                       /\ Len(chat'[th]) = Len(chat[th]) + 1
                       /\ chat'[th][Len(chat'[th])].kind = "reminder"
       /\ (At(h, "delete") /\ hs[h].kind = "message" /\ hs'[h] # hs[h]) =>
            /\ pendingPermissions'[hs[h].thread] = NoPending
            /\ tasks' = tasks]_vars

\* A prompt was answered by the text " No\n": one deny was sent for it, the
\* pending permission is cleared, nothing was written to the task as input
\* and no reminder was posted.
C14_Witness ==
  \E t \in TaskIds :
    /\ Len(tasks[t].sent) = 1
    /\ tasks[t].sent[1].Behavior = "deny" /\ tasks[t].sent[1].prompt > 0
    /\ tasks[t].written = <<>>
    /\ pendingPermissions[tasks[t].thread] = NoPending
    /\ \A h \in HandlerIds : hs[h].kind # "message"
    /\ \A i \in 1..Len(chat[tasks[t].thread]) : chat[tasks[t].thread][i].kind # "reminder"

\* A mention of an allowed user is handled in this step while a task runs
\* in the thread: the event is consumed, no handler goes on with it and no
\* rejection is posted.
MentionToRunning ==
  /\ env'.events = env.events - 1
  /\ hs' = hs /\ chat' = chat
  /\ runningTasks["C1:T1"] # 0

\* The text of a mention without its leading mention token, trimmed.
Stripped(x) == IF x # <<>> /\ x[1] \in MentionToks THEN TrimSpace(Tail(x)) ELSE TrimSpace(x)

\* C15: a mention by an allowed identity in a thread with a running task
\* spawns no subprocess and leaves the session store alone; the text with
\* its leading mention token stripped is forwarded to the task as one
\* follow-up input, and nothing is sent when that remainder is empty.
C15_MentionForwarded ==
  [][MentionToRunning =>
       LET t == runningTasks["C1:T1"]
       IN /\ Len(tasks') = Len(tasks)
          /\ sessions' = sessions /\ file' = file
          /\ \E x \in ReplyMentions :
               IF Stripped(x) = <<>>
               THEN tasks' = tasks
               ELSE \E u \in allowed :
                      tasks' = [tasks EXCEPT ![t].written =
                                  Append(@, [text |-> Stripped(x), by |-> u])]]_vars

\* The same without the text that is forwarded: no subprocess is spawned,
\* the session store is left alone, and at most one input of an allowed
\* user, which is not empty, is written to the task.
C15_MentionSpawnsNothing ==
  [][MentionToRunning =>
       LET t == runningTasks["C1:T1"]
       IN /\ Len(tasks') = Len(tasks)
          /\ sessions' = sessions /\ file' = file
          /\ \/ tasks' = tasks
             \/ \E x \in ReplyMentions, u \in allowed :
                  /\ ParseContinuation(x) # <<>>
                  /\ tasks' = [tasks EXCEPT ![t].written =
                                 Append(@, [text |-> ParseContinuation(x), by |-> u])]]_vars

\* The handler h of a plain thread message that found no running task
\* looks up the session of its thread and acts on it in this step.
RoutesMessage(h) == At(h, "route") /\ hs[h].kind = "message" /\ hs'[h] # hs[h]

\* The step starts one subprocess for the handler's thread, in directory
\* dir, resuming session id, with the given prompt.
Spawns(h, dir, id, prompt) ==
  /\ Len(tasks') = Len(tasks) + 1
  /\ SubSeq(tasks', 1, Len(tasks)) = tasks
  /\ LET n == tasks'[Len(tasks')]
     IN /\ n.thread = hs[h].thread /\ n.leader = "running"
        /\ n.taskPath = dir /\ n.resume = id /\ n.prompt = prompt

\* The messages posted to the handler's thread in this step.
PostedKinds(h) ==
  LET was == chat[hs[h].thread]
      now == chat'[hs[h].thread]
  IN [i \in 1..(Len(now) - Len(was)) |-> now[Len(was) + i].kind]

\* C16: a plain thread message of an allowed identity in a thread with no
\* running task spawns a subprocess exactly when a session is stored for
\* the thread, in the session's task directory, resuming the session's id,
\* with the message text as the prompt; with no session it spawns nothing
\* and only posts a help message.
C16_ResumeWithText ==
  [][\A h \in HandlerIds :
       (RoutesMessage(h) /\ hs[h].user \in allowed) =>
         LET session == sessions[hs[h].thread]
         IN IF session # NoSession
            THEN Spawns(h, session.TaskPath, session.SessionID, hs[h].text)
            ELSE tasks' = tasks /\ PostedKinds(h) = <<"help">>]_vars

\* The same with the prompt as it is built: the message text, followed by
\* the list of the saved paths when attached files were downloaded.
C16_ResumeWithTextAndFiles ==
  [][\A h \in HandlerIds :
       (RoutesMessage(h) /\ hs[h].user \in allowed) =>
         LET session == sessions[hs[h].thread]
             note == <<"\n\n", "Attached files have been saved to:", "\n", "- inputs/file", "\n">>
         IN /\ sessions' = sessions
            /\ IF session # NoSession
               THEN Spawns(h, session.TaskPath, session.SessionID,
                           IF hs[h].files = "saved" THEN hs[h].text \o note ELSE hs[h].text)
               ELSE tasks' = tasks /\ PostedKinds(h) = <<"help">>]_vars

\* A task resumed by the plain message "add tests" with a downloaded file
\* runs in the stored session's directory with its session id.
C16_Witness ==
  \E t \in TaskIds :
    /\ tasks[t].resume = OldSession.SessionID
    /\ tasks[t].taskPath = OldSession.TaskPath
    /\ tasks[t].leader = "running"
    /\ HasPrefix(tasks[t].prompt, <<"add", " ", "tests", "\n\n">>)
    /\ runningTasks[tasks[t].thread] = t

(***************************************************************************)
(* Properties of the button clicks, checked under SpecPermission.          *)
(***************************************************************************)
\* C17: a click on a permission button whose thread key has no running task
\* sends no response, persists no rule, changes no pending permission and
\* starts nothing; all it does is rewrite the clicked prompt into the
\* 'no longer active' marker.  A click whose action id is not one of the
\* four permission actions changes nothing at all.  (A click that arrives
\* for a prompt that is the marker already leaves it the marker.)
C17_StaleClick ==
  [][\A h \in HandlerIds, u \in Users, ts \in 1..Len(chat["C1:T1"]), a \in ActionIDs :
       HandleBlockAction(h, u, "C1:T1", ts, a) =>
         /\ (a \notin {"permission_allow", "permission_deny", "permission_allow_always",
                        "permission_allow_similar"})
              => UNCHANGED <<runningTasks, pendingPermissions, sessions, file, claude, tasks,
                             hs, chat, crashed>>
         /\ (/\ a \in {"permission_allow", "permission_deny", "permission_allow_always",
                        "permission_allow_similar"}
             /\ runningTasks[chat["C1:T1"][ts].thread] = 0)
              => /\ UNCHANGED <<runningTasks, pendingPermissions, sessions, file, claude, tasks,
                                hs, crashed>>
                 /\ chat' = [chat EXCEPT !["C1:T1"][ts].kind = "stale"]]_vars

\* The task asked for a permission and ended unanswered; a click on its
\* prompt then turned the prompt into the marker: no response was ever
\* sent, no rule was added, no handler is at work.
C17_Witness ==
  /\ runningTasks["C1:T1"] = 0
  /\ \E ts \in 1..Len(chat["C1:T1"]) : chat["C1:T1"][ts].kind = "stale"
  /\ \A t \in TaskIds : tasks[t].sent = <<>> /\ tasks[t].leader # "running"
  /\ \A d \in TaskPaths : AllowedTools(claude[d]) = << <<"WebSearch">> >>
  /\ \A h \in HandlerIds : hs[h] = Idle
  /\ crashed = ""

(***************************************************************************)
(* Properties of the shutdown, checked under SpecShutdown.                 *)
(***************************************************************************)
\* The process has ended with exit code 0 after every task was torn down
\* and had its terminal result taken, with the session store saved.
GracefulExit ==
  /\ crashed = "exit0"
  /\ \A t \in TaskIds : tasks[t].leader # "running" /\ tasks[t].doneClosed
  /\ \A th \in Threads : runningTasks[th] = 0
  /\ file = Marshal(sessions)

\* C18: after the first shutdown signal the root context is cancelled,
\* every running task is torn down and delivers its terminal result, the
\* session store is saved and the process exits with code 0: a process
\* that has taken one signal and has ended, other than by an error of the
\* socket connection, has ended so.
C18_ExitsGracefully ==
  (env.signals = 1 /\ crashed \notin {"", "failed"}) => GracefulExit

\* The same as what follows the signal in time: the wait that the first
\* signal starts is ended by the graceful exit, unless a second signal or
\* an error of the socket connection ends it.
C18_GracefulShutdown ==
  (env.signals = 1 /\ crashed = "") ~> (GracefulExit \/ crashed \in {"forced", "failed"})

(***************************************************************************)
(* Properties of the allowlist gate, checked under SpecAuth.               *)
(***************************************************************************)
\* C19: IsAuthorized(id) is true exactly when id is in the allowlist the
\* bot was started with; with an empty allowlist it is false for every
\* identity.  A mention is rejected, and a thread message resumes no
\* session, exactly when its user is not in the list.
C19_AllowlistGate ==
  /\ [](\A u \in Users : IsAuthorized(u) <=> u \in env.allowed)
  /\ [](env.allowed = {} => \A u \in Users : ~IsAuthorized(u))
  /\ [][\A h \in HandlerIds :
         /\ \A u \in Users, th \in Threads, x \in MentionTexts :
              HandleAppMention(h, u, th, x) =>
                (u \notin env.allowed
                   <=> (chat' = Post(chat, Msg(th, "reject", <<>>, 0)) /\ hs' = hs /\ tasks' = tasks))
         /\ (RoutesMessage(h) /\ sessions[hs[h].thread] # NoSession) =>
              (hs[h].user \notin env.allowed <=> (tasks' = tasks /\ chat' = chat))]_vars

\* The bot runs with an empty allowlist and has rejected a mention of U1,
\* the user the other allowlists admit; nothing was started.
C19_Witness ==
  /\ env.allowed = {}
  /\ \E th \in Threads : \E i \in 1..Len(chat[th]) : chat[th][i].kind = "reject"
  /\ tasks = <<>>
  /\ env.events = 0

(***************************************************************************)
(* Properties of the input forwarded to a running task, checked under      *)
(* SpecReplies.                                                            *)
(***************************************************************************)
\* C20: SendInput with empty text and no attachments is rejected and
\* writes nothing to the PTY, on every path by which a chat message is
\* forwarded to a running task: no line written to a PTY carries an empty
\* text.
C20_EmptyInputRejected ==
  \A t \in TaskIds :
    \A i \in 1..Len(tasks[t].written) : tasks[t].written[i].text # <<>>

\* The mention path alone keeps an empty input from the PTY: a mention in
\* a thread with a running task, with nothing after the mention token,
\* writes nothing.
C20_EmptyMentionNotSent ==
  [][\A h \in HandlerIds, u \in Users, x \in ReplyMentions :
       (HandleAppMention(h, u, "C1:T1", x) /\ IsAuthorized(u)
          /\ runningTasks["C1:T1"] # 0 /\ ParseContinuation(x) = <<>>)
         => tasks' = tasks]_vars

(***************************************************************************)
(* Properties of the Markdown conversion, checked under SpecMrkdwn.        *)
(***************************************************************************)
\* The converted texts the dispatcher has posted.
PostedTexts ==
  UNION {{chat[th][i].body : i \in {k \in 1..Len(chat[th]) : chat[th][k].kind = "text"}} :
         th \in Threads}

\* C21: the conversion is idempotent: converting a converted text gives
\* that text again, for every text the conversion produced.
C21_Idempotent ==
  \A b \in PostedTexts : ConvertMarkdownToMrkdwn(b) = b

\* What the conversion does keep: a converted text without an asterisk is
\* converted to itself, and every converted text is after one more
\* conversion.
C21_IdempotentFromSecond ==
  \A b \in PostedTexts :
    /\ (\A i \in 1..Len(b) : b[i] # "*") => ConvertMarkdownToMrkdwn(b) = b
    /\ ConvertMarkdownToMrkdwn(ConvertMarkdownToMrkdwn(b)) = ConvertMarkdownToMrkdwn(b)

(***************************************************************************)
(* Properties of the entries of the live-task map, checked under Spec.     *)
(***************************************************************************)
\* The dispatcher h has registered its task and not yet received the
\* task's terminal result.
AwaitsResult(h) == Dispatching(h) /\ hs[h].pc \in {"loop", "wait"}

\* C22: the entry of a thread in the live-task map exists from the moment
\* the dispatcher registered the started task until that dispatcher has
\* received the task's terminal result: while it waits, the entry is its
\* task.  The entry is removed only by the dispatcher of the task it
\* names, once, after that dispatcher received the result, and nothing
\* else replaces it.
C22_EntryWhileLive ==
  /\ [](\A h \in HandlerIds : AwaitsResult(h) => runningTasks[hs[h].thread] = hs[h].task)
  /\ [][\A th \in Threads :
          (runningTasks[th] # 0 /\ runningTasks'[th] # runningTasks[th]) =>
            /\ runningTasks'[th] = 0
            /\ \E h \in HandlerIds :
                 /\ DeferRunning(h)
                 /\ hs[h].thread = th
                 /\ hs[h].task = runningTasks[th]]_vars

\* What the code does keep: an entry is removed only by the deferred call
\* of a dispatcher of that thread, which has received its own task's
\* result and posted the completion message before.
C22_RemovedAfterResult ==
  [][\A th \in Threads :
       (runningTasks[th] # 0 /\ runningTasks'[th] = 0) =>
         \E h \in HandlerIds :
           /\ DeferRunning(h)
           /\ hs[h].thread = th
           /\ tasks[hs[h].task].results = 1
           /\ tasks[hs[h].task].done = <<>>
           /\ \E i \in 1..Len(chat[th]) :
                chat[th][i].kind = "final" /\ chat[th][i].task = hs[h].task]_vars

(***************************************************************************)
(* Properties of the bounded streams, checked under SpecBackpressure.      *)
(***************************************************************************)
\* The PTY reader sends the items of a line on the output stream as far as
\* the stream has room, drops the rest and scans on.
OutputOverflowDrops ==
  [][\A t \in TaskIds :
       ReaderScan(t, BurstLine) =>
         LET items == LineItems(tasks[t], BurstLine)
             room == OutputCap - Len(tasks[t].output)
         IN /\ tasks'[t].output =
                 tasks[t].output \o SubSeq(items, 1, IF Len(items) < room THEN Len(items) ELSE room)
            /\ tasks'[t].rpc = "scan"]_vars

\* The dispatcher that answers a request from a saved rule queues the
\* response when the response stream has room, drops it when the stream is
\* full, and is back in its loop either way.
ResponseOverflowDrops ==
  [][\A h \in HandlerIds :
       LoopPermissionAllowed(h) =>
         LET t == hs[h].task
         IN /\ Len(tasks[t].responses) = PermissionCap =>
                 (tasks'[t].responses = tasks[t].responses /\ tasks'[t].sent = tasks[t].sent)
            /\ Len(tasks[t].responses) < PermissionCap =>
                 Len(tasks'[t].responses) = Len(tasks[t].responses) + 1
            /\ tasks'[t].requests = Tail(tasks[t].requests)
            /\ hs'[h].pc = "loop"]_vars

\* The pipe reader never waits at its send with a request in hand.
RequestOverflowDrops == [](\A t \in TaskIds : tasks[t].held = <<>>)

\* C23: no producer ever blocks on a full stream: on a full output stream
\* (100), permission-request stream (10) or permission-response stream (10)
\* the new item is dropped and the producer (PTY reader, pipe reader,
\* dispatcher) continues.
C23_NoProducerBlocks ==
  OutputOverflowDrops /\ ResponseOverflowDrops /\ RequestOverflowDrops

\* The two streams on which the code does drop: output and responses.
C23_OutputAndResponsesDrop ==
  OutputOverflowDrops /\ ResponseOverflowDrops

\* ... and both were full when an item came: the reader dropped items of a
\* line, the dispatcher dropped a response.
C23_StreamsWereFull ==
  \E t \in TaskIds :
    /\ Len(tasks[t].output) = OutputCap
    /\ env.lines = 0
    /\ Len(tasks[t].responses) = PermissionCap
    /\ Len(tasks[t].sent) = PermissionCap
    /\ tasks[t].requests = <<>>
    /\ env.requests = 0

(***************************************************************************)
(* Properties of the captured session id, checked under SpecSave.          *)
(***************************************************************************)
\* C24: the session id a task holds is set at most once: once it is not
\* empty (the resume identifier given to Start, or the first message with
\* a session id) no later message changes it, a system init message with
\* another session id included; and the terminal Result carries it.
C24_SessionIDSetOnce ==
  /\ [][\A t \in TaskIds :
          tasks[t].sessionID # "" => tasks'[t].sessionID = tasks[t].sessionID]_vars
  /\ [](\A t \in TaskIds :
          \A i \in 1..Len(tasks[t].done) : tasks[t].done[i].SessionID = tasks[t].sessionID)

\* What the code does keep: the session id of a task changes only when the
\* reader scans a line, it never becomes empty again, and the terminal
\* Result carries the value the task holds at its end.
C24_ResultCarriesLast ==
  /\ [][\A t \in TaskIds :
          tasks'[t].sessionID # tasks[t].sessionID =>
            /\ tasks[t].rpc = "scan"
            /\ tasks'[t].sessionID # ""]_vars
  /\ [](\A t \in TaskIds :
          \A i \in 1..Len(tasks[t].done) : tasks[t].done[i].SessionID = tasks[t].sessionID)

(***************************************************************************)
(* Properties of the reader worker's teardown, checked under SpecStream.   *)
(***************************************************************************)
\* C25: at its end the reader worker sends the terminal Result, then
\* closes the output stream, then the result sink, then the PTY, then the
\* permission channel: whatever is closed, everything before it in that
\* order is done.
C25_TeardownOrder ==
  \A t \in TaskIds :
    /\ tasks[t].fifoClosed => tasks[t].ptyClosed
    /\ tasks[t].ptyClosed => tasks[t].doneClosed
    /\ tasks[t].doneClosed => tasks[t].outputClosed
    /\ tasks[t].outputClosed => tasks[t].results = 1

\* The order of the code, that of its deferred calls: the Result, then the
\* permission channel, the PTY, the result sink, the output stream.
C25_TeardownDeferred ==
  \A t \in TaskIds :
    /\ tasks[t].outputClosed => tasks[t].doneClosed
    /\ tasks[t].doneClosed => tasks[t].ptyClosed
    /\ tasks[t].ptyClosed => tasks[t].fifoClosed
    /\ tasks[t].fifoClosed => tasks[t].results = 1

(***************************************************************************)
(* Properties of who writes to a thread, checked under SpecWriters.        *)
(***************************************************************************)
\* The thread has a live task: a dispatcher has registered its task and has
\* not yet received the task's terminal result.
LiveIn(th) == \E h \in HandlerIds : AwaitsResult(h) /\ hs[h].thread = th

\* This step writes to the thread th for the task: it posts a message or a
\* file or rewrites a message, other than a handler's answer to a message
\* that started nothing.
WritesFor(th) ==
  /\ chat'[th] # chat[th]
  /\ ~(\E h \in HandlerIds : RouteStop(h))

\* This step is one of the dispatcher loop of the live task of th.
LoopStep(th) ==
  \E h \in HandlerIds :
    /\ AwaitsResult(h)
    /\ hs[h].thread = th
    /\ \/ LoopOutput(h)
       \/ LoopOutputClosed(h)
       \/ LoopTick(h)
       \/ LoopPermissionPrompt(h)
       \/ LoopDone(h)
       \/ WaitDone(h)

\* C26: while a task is live, every message or file posted to its thread
\* for the task is posted by that task's dispatcher loop; no other worker
\* (the output-file watcher, the handlers of text replies and button
\* clicks) writes to the thread.
C26_OnlyLoopWrites ==
  [][\A th \in Threads : (LiveIn(th) /\ WritesFor(th)) => LoopStep(th)]_vars

\* The writers the code has: the loop, the watcher of output files, and
\* the handler of a text reply, which posts the reminder and rewrites the
\* prompt it answered.
C26_WritersOfThread ==
  [][\A th \in Threads :
       (LiveIn(th) /\ WritesFor(th)) =>
         \/ LoopStep(th)
         \/ \E h \in HandlerIds : WatchOutputs(h, "out.txt") /\ hs[h].thread = th
         \/ \E h \in HandlerIds :
              /\ hs[h].kind = "message"
              /\ hs[h].thread = th
              /\ MessagePending(h) \/ DeletePending(h)]_vars

(***************************************************************************)
(* C27: after Close of a permission channel both of its workers            *)
(* eventually terminate, whatever they were doing when Close was called,   *)
(* also when blocked opening a pipe nobody else has open.  (Workers of a   *)
(* bot process that has died are gone with it.)                            *)
(***************************************************************************)
C27_WorkersTerminate ==
  \A t \in 1..MaxTasks :
    (t \in TaskIds /\ tasks[t].fifoClosed)
      ~> \/ crashed # ""
         \/ t \in TaskIds /\ tasks[t].readRequests = "end" /\ tasks[t].writeResponses = "end"

\* What the code gives while the bot lives: a writer that is at its select
\* when Close is called terminates, and a reader that is in Scan terminates
\* when the pipe's writer goes.
C27_WaitingWorkersTerminate ==
  \A t \in 1..MaxTasks :
    /\ (t \in TaskIds /\ tasks[t].fifoClosed /\ tasks[t].writeResponses = "select")
         ~> (crashed # "" \/ (t \in TaskIds /\ tasks[t].writeResponses = "end"))
    /\ (t \in TaskIds /\ tasks[t].fifoClosed /\ tasks[t].readRequests = "scan")
         ~> (crashed # "" \/ (t \in TaskIds /\ tasks[t].readRequests = "end"))

\* Close was called while the reader was in os.OpenFile, and everything
\* else of the task has ended.
C27_ClosedWhileOpening ==
  \E t \in TaskIds :
    /\ tasks[t].fifoClosed
    /\ tasks[t].rpc = "end"
    /\ tasks[t].readRequests = "open"
    /\ tasks[t].writeResponses = "end"

\* The runtime workspace of instance t as it is on disk.
Workspace(t) == runtime[tasks[t].taskPath][tasks[t].suffix]

\* The step in which the permission channel of instance t is closed.
Closes(t) == t \in TaskIds /\ ~tasks[t].fifoClosed /\ tasks'[t].fifoClosed

(***************************************************************************)
(* C28: when a LiveTask terminates its runtime workspace is deleted: after *)
(* Close neither the two pipes nor the script, the configuration document, *)
(* the copied agent prompt or the directory of that instance remain.       *)
(***************************************************************************)
C28_WorkspaceDeleted ==
  [][\A t \in 1..MaxTasks :
       Closes(t) => runtime'[tasks[t].taskPath][tasks[t].suffix] = NoRuntime]_vars

\* What Close does: the two pipe paths are gone, everything else in the
\* directory stays as it was.
C28_CloseRemovesPipesOnly ==
  [][\A t \in 1..MaxTasks :
       Closes(t) => runtime'[tasks[t].taskPath][tasks[t].suffix] = Close(Workspace(t))]_vars

\* An instance is closed and its directory, script, configuration document
\* and agent prompt are still there.
C28_LeftBehind ==
  \E t \in TaskIds :
    /\ tasks[t].fifoClosed
    /\ \A f \in {RuntimeDir, MCPScriptName, MCPConfigName, AgentMD} : Workspace(t)[f] = t
    /\ \A f \in {FIFORequestName, FIFOResponseName} : Workspace(t)[f] = 0

(***************************************************************************)
(* C29: two permission channels live at the same time under the same task  *)
(* directory never use the same runtime workspace: creating an instance    *)
(* never removes, replaces or shares the pipes, script or configuration    *)
(* document of an instance that is still live.                             *)
(***************************************************************************)
LiveChannel(t) == t \in TaskIds /\ ~tasks[t].fifoClosed

OwnFiles == {FIFORequestName, FIFOResponseName, MCPScriptName, MCPConfigName}

C29_LiveOwnsWorkspace ==
  /\ \A t, u \in TaskIds :
       (t # u /\ LiveChannel(t) /\ LiveChannel(u) /\ tasks[t].taskPath = tasks[u].taskPath)
         => tasks[t].suffix # tasks[u].suffix
  /\ \A t \in TaskIds : LiveChannel(t) => \A f \in OwnFiles : Workspace(t)[f] = t

\* What the code gives: an instance keeps its files while it is live as
\* long as no other instance started under its task directory drew its
\* suffix.
C29_OwnsUnlessSameDraw ==
  \A t \in TaskIds :
    (LiveChannel(t) /\ \A u \in TaskIds \ {t} :
        tasks[u].taskPath # tasks[t].taskPath \/ tasks[u].suffix # tasks[t].suffix)
      => \A f \in OwnFiles : Workspace(t)[f] = t

\* Two instances are live under one task directory with different draws.
C29_TwoLive ==
  \E t, u \in TaskIds :
    /\ t # u /\ LiveChannel(t) /\ LiveChannel(u)
    /\ tasks[t].taskPath = tasks[u].taskPath
    /\ tasks[t].suffix # tasks[u].suffix

\* Handler h serves a button click that found a running task; it asks to
\* remember a rule; it returns in this step.
ClickOf(h) == hs[h].kind = "click"

Remembers(h) == hs[h].click.b = "allow" /\ hs[h].click.r # <<>>

ClickEnds(h) == ClickOf(h) /\ hs'[h].kind = "idle"

HasRule(allowedTools, pattern) == \E i \in 1..Len(allowedTools) : allowedTools[i] = pattern

\* The saved rule set of a task directory changes only by the handler of
\* an allow click with a remember string, at the end of its
\* savePermissionRule, for the directory of the task it found, and to the
\* list that handler read with exactly that string appended.
SavesOnlyRemembered ==
  \A d \in TaskPaths :
    AllowedTools(claude'[d]) # AllowedTools(claude[d])
      => \E h \in HandlerIds :
           /\ ClickOf(h) /\ Remembers(h) /\ At(h, "saveWrite")
           /\ tasks[hs[h].task].taskPath = d
           /\ AllowedTools(claude'[d]) = Append(AllowedTools(hs[h].data), hs[h].click.r)

C31_FailedStartLeavesNothing ==
  [][\A h \in HandlerIds, step \in FailSteps, sfx \in Suffixes, prompt \in BOOLEAN :
       RouteStartFailsAt(h, step, sfx, prompt)
         => /\ tasks' = tasks
            /\ runningTasks' = runningTasks
            /\ sessions' = sessions /\ file' = file
            /\ \A f \in {FIFORequestName, FIFOResponseName} :
                 runtime'[Route(h).args.taskPath][sfx][f] \in {0, runtime[Route(h).args.taskPath][sfx][f]}
            /\ step # "mkdir" =>
                 \A f \in {FIFORequestName, FIFOResponseName} :
                   runtime'[Route(h).args.taskPath][sfx][f] = 0
            /\ Len(chat'[hs[h].thread]) > Len(chat[hs[h].thread])
            /\ chat'[hs[h].thread][Len(chat'[hs[h].thread])].kind = "start-failed"
            /\ hs'[h] = Idle]_vars

\* A Start has failed at pty.Start in a thread: the failure message is
\* there, the script and the configuration document of the attempt are on
\* disk, its pipes are not, and the thread has no running task.
C31_FailedAtLaunch ==
  \E th \in Threads, sfx \in Suffixes :
    /\ chat[th] # <<>>
    /\ chat[th][Len(chat[th])].kind = "start-failed"
    /\ runningTasks[th] = 0
    /\ runtime["/agents/demo"][sfx][MCPConfigName] # 0
    /\ runtime["/agents/demo"][sfx][MCPConfigName] > Len(tasks)
    /\ runtime["/agents/demo"][sfx][FIFORequestName] = 0

\* The uploads of the watcher of task t, and the pairs of uploads of one file.
Uploads(t) == tasks[t].watch.log

Reuploads(t) ==
  {p \in (1..Len(Uploads(t))) \X (1..Len(Uploads(t))) :
     p[1] < p[2] /\ Uploads(t)[p[1]].name = Uploads(t)[p[2]].name}

\* Every upload is of a file created or written after the watcher started;
\* two uploads of a file are a cooldown apart; the watcher has ended only
\* after outputWatchDone was closed.
WatcherRules(t) ==
  /\ \A i \in 1..Len(Uploads(t)) :
       LET was == tasks[t].watch.initial[Uploads(t)[i].name]
       IN was.tracked => Uploads(t)[i].modTime > was.modTime
  /\ \A p \in Reuploads(t) : Uploads(t)[p[2]].at - Uploads(t)[p[1]].at >= cooldownPeriod
  /\ tasks[t].watch.pc = "end" => WatchDoneClosed(t)

(***************************************************************************)
(* C32: the watcher uploads a file only if it was created or modified      *)
(* after the watcher started; a file not modified after its upload is      *)
(* never uploaded again; a modified file is not uploaded again within 10   *)
(* seconds of its previous upload; the watcher stops after one last scan   *)
(* when the task finishes.                                                 *)
(***************************************************************************)
C32_UploadedOncePerChange ==
  \A t \in TaskIds :
    /\ WatcherRules(t)
    /\ \A p \in Reuploads(t) : Uploads(t)[p[2]].modTime > Uploads(t)[p[1]].modTime

\* What the code gives: a file is uploaded again only if it was written
\* after the os.Stat that preceded its previous upload.
C32_UploadedOncePerStat ==
  \A t \in TaskIds :
    /\ WatcherRules(t)
    /\ \A p \in Reuploads(t) : Uploads(t)[p[2]].modTime > Uploads(t)[p[1]].seen

\* A file whose size changed during the settle delay is not uploaded in
\* that scan, and a watcher that has made its last scan does nothing more.
C32_SettleAndStop ==
  [][\A t \in 1..MaxTasks :
       /\ (WatchSettle(t) /\ env.dir[tasks[t].watch.name].size # tasks[t].watch.size)
            => /\ Uploads(t)' = Uploads(t)
               /\ tasks[t].watch.name \notin tasks'[t].watch.left
               /\ tasks'[t].watch.pc = "scan"
       /\ (t \in TaskIds /\ tasks[t].watch.pc = "end") => tasks'[t].watch = tasks[t].watch
       /\ (t \in TaskIds /\ tasks[t].watch.pc = "scan" /\ tasks[t].watch.final)
            => tasks'[t].watch.pc # "idle"]_vars

\* A file was uploaded, written after its upload, and uploaded again.
C32_UploadedAgain ==
  \E t \in TaskIds : \E p \in Reuploads(t) : Uploads(t)[p[2]].modTime > Uploads(t)[p[1]].modTime

(***************************************************************************)
(* The output stream at the dispatcher's exit, checked under SpecStream.   *)
(***************************************************************************)
\* The dispatcher h has taken the terminal Result and posted the
\* completion message, in the loop or at done:.
LeftLoop(h) == Dispatching(h) /\ hs[h].exit \in {"result", "closed"}

\* The items the reader placed on task.output that nobody has received.
Unread(h) == tasks[hs[h].task].output

\* C33: when the dispatcher has left its loop and posted the completion
\* message, by the Done case of the select or by the closed output stream,
\* no item the reader placed on the output stream remains unread.
C33_NoItemUnread ==
  \A h \in HandlerIds : LeftLoop(h) => Unread(h) = <<>>

\* The part that holds: a dispatcher that left through the closed output
\* stream has read every item.
C33_ClosedExitReadAll ==
  \A h \in HandlerIds :
    LeftLoop(h) /\ hs[h].exit = "closed" => Unread(h) = <<>>

(***************************************************************************)
(* Sends on the streams of the permission channel, checked under           *)
(* SpecPermission.                                                         *)
(***************************************************************************)
\* A step in which h calls RunningTask.SendPermissionResponse.
SendsResponse(h) ==
  \/ MessagePending(h) /\ hs'[h].pc = "delete"
  \/ ClickPending(h) /\ hs'[h].pc \in {"save", "delete"}
  \/ LoopPermissionAllowed(h)
  \/ LoopPermissionPostFails(h)

\* The task h works on is the one the live-task map holds for its thread.
StillLive(h) == hs[h].task # 0 /\ runningTasks[hs[h].thread] = hs[h].task

\* C34: no worker sends on a closed stream: a SendPermissionResponse by the
\* dispatcher or by an event handler, for a task still present in the
\* live-task map, never meets a response stream that PermissionFIFO.Close
\* has closed (the send would panic).
C34_NoSendOnClosed ==
  [][\A h \in HandlerIds :
       SendsResponse(h) /\ StillLive(h) =>
         ~tasks[hs[h].task].fifoClosed /\ crashed' = ""]_vars

\* The part that holds: PermissionFIFO.Close runs once per channel, in the
\* deferred calls of the reader worker, and a closed channel stays closed.
C34_ClosedOnce ==
  [][\A t \in TaskIds :
       /\ tasks[t].fifoClosed => tasks'[t].fifoClosed /\ tasks'[t].rpc # "closeFifo"
       /\ tasks'[t].fifoClosed /\ ~tasks[t].fifoClosed => tasks[t].rpc = "closeFifo"]_vars

(***************************************************************************)
(* The prompt a button click answers, checked under SpecPermission.        *)
(***************************************************************************)
\* Handler h, serving a click, sends the response in this step.
ClickAnswers(h) == ClickPending(h) /\ hs'[h].pc \in {"save", "delete"}

\* Handler h, serving a click, rewrites a prompt message in this step.
ClickRewrites(h) == ClickOf(h) /\ DeletePending(h)

\* C35: a button click is applied to the prompt it was clicked on: a click
\* on prompt message M sends a response, and rewrites a prompt message,
\* only if M is the message of the thread's current PendingPermission; the
\* message rewritten is M.
C35_ClickAnswersItsPrompt ==
  [][\A h \in HandlerIds :
       /\ ClickAnswers(h) =>
            pendingPermissions[hs[h].click.k].MessageTS = hs[h].click.msg
       /\ ClickRewrites(h) => hs[h].perm.MessageTS = hs[h].click.msg]_vars

(***************************************************************************)
(* The pending-permission map against the live-task map, checked under     *)
(* SpecPermission (one task in the thread) and SpecPending (two).          *)
(***************************************************************************)
\* C36: a PendingPermission exists for a thread only if a LiveTask exists
\* for that thread: the pending-permission map never has a key that is
\* absent from the live-task map.
C36_PendingOnlyIfLive ==
  \A th \in Threads : pendingPermissions[th] # NoPending => runningTasks[th] # 0

(***************************************************************************)
(* Concurrent runs of Bot.savePermissionRule, checked under SpecDecisions: *)
(* two clicks on one prompt, 'Always Allow' and 'Allow Similar', ask to    *)
(* remember different rules for the same task directory.                   *)
(***************************************************************************)
\* C37: concurrent rule persistence loses no rule: when a run of
\* savePermissionRule ends, every rule that was in the saved rule set of
\* the task directory is still in it, and so is the rule of this run; so
\* that both rules are there once both runs have returned.
C37_NoRuleLost ==
  [][\A h \in HandlerIds :
       Persists(h) =>
         LET d == tasks[hs[h].task].taskPath
             was == AllowedTools(claude[d])
             now == AllowedTools(claude'[d])
         IN /\ \A i \in 1..Len(was) : HasRule(now, was[i])
            /\ HasRule(now, hs[h].click.r)]_vars

\* The part that holds: the run ends with its own rule in the saved set
\* whenever the file is as the run read it.
C37_OwnRuleSaved ==
  [][\A h \in HandlerIds :
       Persists(h) /\ hs[h].data = claude[tasks[hs[h].task].taskPath] =>
         LET d == tasks[hs[h].task].taskPath
             was == AllowedTools(claude[d])
             now == AllowedTools(claude'[d])
         IN /\ \A i \in 1..Len(was) : HasRule(now, was[i])
            /\ HasRule(now, hs[h].click.r)]_vars

(***************************************************************************)
(* How the dispatcher takes an item by where the reader had it from,       *)
(* checked under SpecMarkers.                                              *)
(***************************************************************************)
\* The items the reader makes of the text blocks and the streaming deltas
\* of MarkerLines, and those it makes of their result messages and
\* tool-result blocks.
FromText ==
  UNION { {m.Content[i].Text : i \in {j \in 1..Len(m.Content) : m.Content[j].Type = "text"}}
            \cup (IF m.Delta # <<>> THEN {m.Delta} ELSE {}) :
          m \in {l \in MarkerLines : l.Type \in {"assistant", "content_block_delta"}} }

\* The items the reader makes of the short Bash outputs of MarkerLines.
FromShortBash ==
  UNION { {ToolResultItem("Bash", m.Content[i].Text) :
             i \in {j \in 1..Len(m.Content) : /\ m.Content[j].Type = "tool_result"
                                              /\ StrLen(m.Content[j].Text) <= maxInlineLen}} :
          m \in {l \in MarkerLines : l.Type = "user"} }

\* The dispatcher h handles the item it receives in this step as ordinary
\* text: it appends it to the text buffer, which it posts as one text
\* message when the buffer has grown to the batch size; it posts no stats
\* and no snippet.
AppendedAsText(h) ==
  LET content == Head(tasks[hs[h].task].output)
      c == chat'[hs[h].thread]
  IN \/ hs'[h].buf = hs[h].buf \o content /\ chat' = chat
     \/ /\ hs'[h].buf = <<>>
        /\ Len(c) = Len(chat[hs[h].thread]) + 1
        /\ c[Len(c)].kind = "text"
        /\ c[Len(c)].body = ConvertMarkdownToMrkdwn(TrimSpace(hs[h].buf \o content))

\* C38: the dispatcher handles an item as Stats or as a ToolResult upload
\* only if the reader produced it from a result message or a tool-result
\* block: assistant text or a streaming delta that begins with the marker
\* '__STATS__' or '__SNIPPET__' is handled as ordinary text and appended
\* to the text buffer.
C38_MarkedTextIsText ==
  [][\A h \in HandlerIds :
       Received(h) /\ Head(tasks[hs[h].task].output) \in FromText \cup FromShortBash
         => AppendedAsText(h)]_vars

\* The part that holds: text that begins with no marker and a short Bash
\* output, whatever it begins with, are appended to the text buffer, and
\* the items of result messages and of the other tool results are posted
\* as stats and snippets.
C38_UnmarkedTextIsText ==
  [][\A h \in HandlerIds :
       Received(h) =>
         LET content == Head(tasks[hs[h].task].output)
         IN /\ (content \in FromText /\ ItemClass(content) = "text") => AppendedAsText(h)
            /\ content \in FromShortBash => AppendedAsText(h)
            /\ content \notin FromText \cup FromShortBash =>
                 /\ hs'[h].buf = <<>>
                 /\ chat'[hs[h].thread][Len(chat'[hs[h].thread])].kind \in {"stats", "snippet"}]_vars

(***************************************************************************)
(* A permission prompt that cannot be posted, checked under                *)
(* SpecPermission.                                                         *)
(***************************************************************************)
\* The response the dispatcher sends when the post of the prompt failed.
PostFailedDeny(req) ==
  [Behavior |-> "deny", Message |-> "Failed to prompt user", prompt |-> 0, by |-> "",
   tool |-> req.ToolName]

\* C39: if posting a permission prompt to chat fails, a deny response with
\* a message is sent to the LiveTask (on its open response stream), no
\* PendingPermission is recorded for the thread and no prompt appears in
\* it, and the dispatcher stays in its loop with the request taken off the
\* request stream.
C39_PostFailureDenies ==
  [][\A h \in HandlerIds :
       LoopPermissionPostFails(h) =>
         LET t == hs[h].task
             req == Head(tasks[t].requests)
             c == chat'[hs[h].thread]
         IN /\ pendingPermissions' = pendingPermissions
            /\ \A i \in (Len(chat[hs[h].thread]) + 1)..Len(c) : c[i].kind = "text"
            /\ tasks'[t].requests = Tail(tasks[t].requests)
            /\ hs'[h].pc = "loop"
            /\ (~tasks[t].fifoClosed /\ Len(tasks[t].responses) < PermissionCap) =>
                 /\ tasks'[t].sent = Append(tasks[t].sent, PostFailedDeny(req))
                 /\ tasks'[t].responses =
                      Append(tasks[t].responses,
                             [Behavior |-> "deny", Message |-> "Failed to prompt user"])
                 /\ crashed' = ""]_vars

\* The post of a prompt failed: the task was sent the deny, the thread has
\* neither a pending permission nor a prompt message, and the dispatcher
\* is in its loop.
C39_Denied ==
  \E h \in HandlerIds :
    /\ InLoop(h)
    /\ pendingPermissions[hs[h].thread] = NoPending
    /\ \A i \in 1..Len(chat[hs[h].thread]) : chat[hs[h].thread][i].kind # "prompt"
    /\ \E i \in 1..Len(tasks[hs[h].task].sent) :
         /\ tasks[hs[h].task].sent[i].Behavior = "deny"
         /\ tasks[hs[h].task].sent[i].Message = "Failed to prompt user"

(***************************************************************************)
(* Concurrent Saves of the session store, checked under SpecSaves.         *)
(***************************************************************************)
\* Handler h is in SessionStore.Save, or has set its mapping and is about
\* to call it.
Saving(h) ==
  Dispatching(h) /\ hs[h].pc \in {"save", "create", "write", "close", "rename"}

\* C40: when Saves run concurrently, after all of them have returned the
\* destination file contains the latest state of the in-memory store: the
\* rename that ends the last Save under way leaves the serialization of
\* the store as it is then.
C40_LatestStateOnDisk ==
  [][\A h \in HandlerIds :
       (SaveRename(h) /\ \A g \in HandlerIds \ {h} : ~Saving(g))
         => file' = Marshal(sessions)]_vars

\* The part that holds: what a Save leaves on disk is the serialization of
\* the store as it was when that Save took its snapshot, and a Save that
\* runs alone from its snapshot to its rename leaves the latest state.
C40_SnapshotOnDisk ==
  [][\A h \in HandlerIds :
       /\ SaveSnapshot(h) => hs'[h].data = Marshal(sessions)
       /\ SaveRename(h) => file' = hs[h].data
       /\ (SaveRename(h) /\ hs[h].data = Marshal(sessions)) => file' = Marshal(sessions)]_vars

====
